---- MODULE Spec2Model ----
(***************************************************************************)
(* A model of the analysis pipeline of src/server/index.js: the SQLite     *)
(* store behind one shared connection, the article ingestion endpoint, the *)
(* pipeline endpoint (select, enrich, persist, cluster, label, commit),    *)
(* the coherence refiner, and the pure functions they use (cosine          *)
(* similarity, the online clusterer, the bias statistics).                 *)
(*                                                                         *)
(* Numbers.  The code computes on IEEE doubles.  Here a real x is the      *)
(* integer nearest to x * Scale, so 0.55 is 550 and a unit vector has      *)
(* squared length Scale * Scale.                                           *)
(*                                                                         *)
(* Optional values.  A JavaScript value that may be null or undefined is   *)
(* a set with at most one element: {} is null, {v} is the value v.         *)
(***************************************************************************)
EXTENDS Integers, Sequences, FiniteSets, TLC

\* ------------------------------------------------------------------ bounds

\* Resolution of the fixed-point numbers that stand for the doubles.
Scale == 1000
\* Longest article list handed to the clusterer in SpecCluster.
MaxLen == 3
\* Largest cluster whose statistics SpecStats computes.
MaxMembers == 10
\* Pipeline triggers in one behaviour of Spec.
MaxRuns == 2
\* Injected failures (model loading, inference, store writes) in one behaviour.
MaxFaults == 1

\* --------------------------------------------------------------- helpers

Null == {}
Some(v) == {v}
Val(o) == CHOOSE v \in o : TRUE

Abs(x) == IF x < 0 THEN 0 - x ELSE x

\* a / b to the nearest integer, b > 0
RoundDiv(a, b) == (2 * a + b) \div (2 * b)

RECURSIVE SqrtSearch(_, _, _)
SqrtSearch(n, lo, hi) ==
    IF lo >= hi THEN lo
    ELSE LET mid == (lo + hi + 1) \div 2
         IN  IF mid * mid <= n THEN SqrtSearch(n, mid, hi)
             ELSE SqrtSearch(n, lo, mid - 1)

\* Math.sqrt on fixed-point numbers: the integer nearest to the root.
MathSqrt(n) ==
    LET f == SqrtSearch(n, 0, 46340)
    IN  IF n - f * f > f THEN f + 1 ELSE f

RECURSIVE SumTo(_, _)
SumTo(f, n) == IF n = 0 THEN 0 ELSE f[n] + SumTo(f, n - 1)

\* Math.round(100 * part / total) for counts part <= total, total > 0:
\* Math.round rounds a half up.
MathRoundPct(part, total) == (200 * part + total) \div (2 * total)

\* ------------------------------------------------------------ math utils

cosineSimilarity(vecA, vecB) ==
    IF vecA = Null \/ vecB = Null THEN 0
    ELSE LET a == Val(vecA)
             b == Val(vecB)
         IN  IF Len(a) # Len(b) THEN 0
             ELSE LET dot  == SumTo([i \in 1..Len(a) |-> a[i] * b[i]], Len(a))
                      magA == SumTo([i \in 1..Len(a) |-> a[i] * a[i]], Len(a))
                      magB == SumTo([i \in 1..Len(a) |-> b[i] * b[i]], Len(a))
                      prod == MathSqrt(magA) * MathSqrt(magB)
                      den  == IF prod = 0 THEN Scale * Scale ELSE prod
                  IN  IF dot >= 0 THEN RoundDiv(dot * Scale, den)
                      ELSE 0 - RoundDiv((0 - dot) * Scale, den)

\* weights in tenths: (8, 2) is (0.8, 0.2)
weightedVectorAdd(vecA, vecB, weightA, weightB) ==
    [i \in 1..Len(vecA) |->
        LET s == vecA[i] * weightA + vecB[i] * weightB
        IN  IF s >= 0 THEN RoundDiv(s, 10) ELSE 0 - RoundDiv(0 - s, 10)]

normalizeVector(vec) ==
    LET mag == MathSqrt(SumTo([i \in 1..Len(vec) |-> vec[i] * vec[i]], Len(vec)))
        den == IF mag = 0 THEN Scale ELSE mag
    IN  [i \in 1..Len(vec) |->
            IF vec[i] >= 0 THEN RoundDiv(vec[i] * Scale, den)
            ELSE 0 - RoundDiv((0 - vec[i]) * Scale, den)]

\* 0.55, 0.90 and 0.60 as fixed-point numbers
CLUSTERING_THRESHOLD == (55 * Scale) \div 100
DUPLICATE_THRESHOLD == (90 * Scale) \div 100
COHERENCE_THRESHOLD == (60 * Scale) \div 100
\* 48 * 60 * 60 * 1000 ms; the model's clock counts hours
MAX_TIME_DIFF_MS == 48

\* ------------------------------------------------------------- headlines

\* A headline is a sequence of one-character strings over this alphabet.
toLowerCase(s) ==
    [i \in 1..Len(s) |->
        CASE s[i] = "A" -> "a"
          [] s[i] = "B" -> "b"
          [] OTHER -> s[i]]

RECURSIVE trimStart(_)
trimStart(s) == IF s # << >> /\ Head(s) = " " THEN trimStart(Tail(s)) ELSE s

RECURSIVE trimEnd(_)
trimEnd(s) ==
    IF s # << >> /\ s[Len(s)] = " " THEN trimEnd(SubSeq(s, 1, Len(s) - 1)) ELSE s

trim(s) == trimEnd(trimStart(s))

\* existing.headline.toLowerCase().trim() === article.headline.toLowerCase().trim()
SameHeadline(h1, h2) == trim(toLowerCase(h1)) = trim(toLowerCase(h2))

\* ------------------------------------------------------------- clusterer

\* new Date(article.pubDate).getTime(), or Date.now() when pubDate is missing
ArticleTime(article, now) == IF article.pubDate # Null THEN Val(article.pubDate) ELSE now

\* The duplicate check as it would be without the comparison of headlines
DuplicateMatchCosineOnly(cluster, article) ==
    \E k \in 1..Len(cluster.articles) :
        cosineSimilarity(article.embedding, cluster.articles[k].embedding) >= DUPLICATE_THRESHOLD

\* cluster.articles.some(existing => ...): the duplicate check of one cluster
DuplicateMatch(cluster, article) ==
    \E k \in 1..Len(cluster.articles) :
        LET existing == cluster.articles[k]
        IN  \/ SameHeadline(existing.headline, article.headline)
            \/ cosineSimilarity(article.embedding, existing.embedding) >= DUPLICATE_THRESHOLD

\* The scan as it would be with `sim >= maxSim`: the last of the clusters
\* tied for the highest similarity wins
RECURSIVE ScanClustersLastTie(_, _, _, _, _, _)
ScanClustersLastTie(microClusters, article, articleTime, i, bestIdx, maxSim) ==
    IF i > Len(microClusters) THEN [dup |-> 0, bestIdx |-> bestIdx, maxSim |-> maxSim]
    ELSE LET cluster == microClusters[i]
             timeDiff == Abs(articleTime - cluster.latestTime)
         IN  IF timeDiff > MAX_TIME_DIFF_MS
             THEN ScanClustersLastTie(microClusters, article, articleTime, i + 1, bestIdx, maxSim)
             ELSE IF DuplicateMatch(cluster, article)
             THEN [dup |-> i, bestIdx |-> bestIdx, maxSim |-> maxSim]
             ELSE LET sim == cosineSimilarity(article.embedding, Some(cluster.centroid))
                  IN  IF sim >= maxSim
                      THEN ScanClustersLastTie(microClusters, article, articleTime, i + 1, i, sim)
                      ELSE ScanClustersLastTie(microClusters, article, articleTime,
                                               i + 1, bestIdx, maxSim)

\* The scan as it would be without `break`: the last cluster that holds a
\* duplicate takes the article
RECURSIVE ScanClustersLastDuplicate(_, _, _, _, _, _)
ScanClustersLastDuplicate(microClusters, article, articleTime, i, bestIdx, maxSim) ==
    IF i > Len(microClusters) THEN [dup |-> 0, bestIdx |-> bestIdx, maxSim |-> maxSim]
    ELSE LET cluster == microClusters[i]
             timeDiff == Abs(articleTime - cluster.latestTime)
             rest == ScanClustersLastDuplicate(microClusters, article, articleTime,
                                               i + 1, bestIdx, maxSim)
         IN  IF timeDiff > MAX_TIME_DIFF_MS THEN rest
             ELSE IF DuplicateMatch(cluster, article)
             THEN (IF rest.dup # 0 THEN rest
                   ELSE [dup |-> i, bestIdx |-> bestIdx, maxSim |-> maxSim])
             ELSE LET sim == cosineSimilarity(article.embedding, Some(cluster.centroid))
                  IN  IF sim > maxSim
                      THEN ScanClustersLastDuplicate(microClusters, article, articleTime,
                                                     i + 1, i, sim)
                      ELSE rest

\* The scan as it would be without the time check
RECURSIVE ScanClustersNoTimeCheck(_, _, _, _, _, _)
ScanClustersNoTimeCheck(microClusters, article, articleTime, i, bestIdx, maxSim) ==
    IF i > Len(microClusters) THEN [dup |-> 0, bestIdx |-> bestIdx, maxSim |-> maxSim]
    ELSE LET cluster == microClusters[i]
         IN  IF DuplicateMatch(cluster, article)
             THEN [dup |-> i, bestIdx |-> bestIdx, maxSim |-> maxSim]
             ELSE LET sim == cosineSimilarity(article.embedding, Some(cluster.centroid))
                  IN  IF sim > maxSim
                      THEN ScanClustersNoTimeCheck(microClusters, article, articleTime,
                                                   i + 1, i, sim)
                      ELSE ScanClustersNoTimeCheck(microClusters, article, articleTime,
                                                   i + 1, bestIdx, maxSim)

\* The scan of the micro-clusters for one article, from cluster i on:
\* [dup |-> index of the cluster that took it as a duplicate, or 0,
\*  bestIdx |-> 0 for the code's -1, maxSim |-> ...]
RECURSIVE ScanClusters(_, _, _, _, _, _)
ScanClusters(microClusters, article, articleTime, i, bestIdx, maxSim) ==
    IF i > Len(microClusters) THEN [dup |-> 0, bestIdx |-> bestIdx, maxSim |-> maxSim]
    ELSE LET cluster == microClusters[i]
             timeDiff == Abs(articleTime - cluster.latestTime)
         IN  IF timeDiff > MAX_TIME_DIFF_MS
             THEN ScanClusters(microClusters, article, articleTime, i + 1, bestIdx, maxSim)
             ELSE IF DuplicateMatch(cluster, article)
             THEN [dup |-> i, bestIdx |-> bestIdx, maxSim |-> maxSim]
             ELSE LET sim == cosineSimilarity(article.embedding, Some(cluster.centroid))
                  IN  IF sim > maxSim
                      THEN ScanClusters(microClusters, article, articleTime, i + 1, i, sim)
                      ELSE ScanClusters(microClusters, article, articleTime, i + 1, bestIdx, maxSim)

\* The iteration as it would be without `if (isDuplicate) continue`: the
\* duplicate, pushed to the cluster it matched, goes on to the best cluster
\* seen before the match, or to a cluster of its own.
ConsumeArticleNoContinue(microClusters, article, now) ==
    LET vec == Val(article.embedding)
        articleTime == ArticleTime(article, now)
        scan == ScanClusters(microClusters, article, articleTime, 1, 0, 0 - Scale)
        pushed == IF scan.dup # 0
                  THEN [microClusters EXCEPT ![scan.dup].articles = Append(@, article)]
                  ELSE microClusters
    IN  IF scan.maxSim >= CLUSTERING_THRESHOLD /\ scan.bestIdx # 0
        THEN LET cluster == pushed[scan.bestIdx]
             IN  [pushed EXCEPT ![scan.bestIdx] =
                    [centroid |-> normalizeVector(weightedVectorAdd(cluster.centroid, vec, 8, 2)),
                     articles |-> Append(cluster.articles, article),
                     latestTime |-> IF articleTime > cluster.latestTime
                                    THEN articleTime ELSE cluster.latestTime]]
        ELSE Append(pushed,
                    [centroid |-> vec, articles |-> << article >>, latestTime |-> articleTime])

\* The iteration as it would be if a duplicate merge re-weighted the centroid
ConsumeArticleDupMovesCentroid(microClusters, article, now) ==
    LET vec == Val(article.embedding)
        articleTime == ArticleTime(article, now)
        scan == ScanClusters(microClusters, article, articleTime, 1, 0, 0 - Scale)
    IN  IF scan.dup # 0
        THEN [microClusters EXCEPT
                ![scan.dup].articles = Append(@, article),
                ![scan.dup].centroid = normalizeVector(weightedVectorAdd(@, vec, 8, 2))]
        ELSE IF scan.maxSim >= CLUSTERING_THRESHOLD /\ scan.bestIdx # 0
        THEN LET cluster == microClusters[scan.bestIdx]
             IN  [microClusters EXCEPT ![scan.bestIdx] =
                    [centroid |-> normalizeVector(weightedVectorAdd(cluster.centroid, vec, 8, 2)),
                     articles |-> Append(cluster.articles, article),
                     latestTime |-> IF articleTime > cluster.latestTime
                                    THEN articleTime ELSE cluster.latestTime]]
        ELSE Append(microClusters,
                    [centroid |-> vec, articles |-> << article >>, latestTime |-> articleTime])

\* One iteration of the loop over validArticles.
ConsumeArticle(microClusters, article, now) ==
    LET vec == Val(article.embedding)
        articleTime == ArticleTime(article, now)
        scan == ScanClusters(microClusters, article, articleTime, 1, 0, 0 - Scale)
    IN  IF scan.dup # 0
        THEN [microClusters EXCEPT ![scan.dup].articles = Append(@, article)]
        ELSE IF scan.maxSim >= CLUSTERING_THRESHOLD /\ scan.bestIdx # 0
        THEN LET cluster == microClusters[scan.bestIdx]
             IN  [microClusters EXCEPT ![scan.bestIdx] =
                    [centroid |-> normalizeVector(weightedVectorAdd(cluster.centroid, vec, 8, 2)),
                     articles |-> Append(cluster.articles, article),
                     latestTime |-> IF articleTime > cluster.latestTime
                                    THEN articleTime ELSE cluster.latestTime]]
        ELSE Append(microClusters,
                    [centroid |-> vec, articles |-> << article >>, latestTime |-> articleTime])

RECURSIVE ClusterLoop(_, _, _)
ClusterLoop(microClusters, validArticles, now) ==
    IF validArticles = << >> THEN microClusters
    ELSE ClusterLoop(ConsumeArticle(microClusters, Head(validArticles), now),
                     Tail(validArticles), now)

\* articles.filter(a => a.embedding)
ValidArticles(articles) == SelectSeq(articles, LAMBDA a : a.embedding # Null)

clusterArticles(articles, now) == ClusterLoop(<< >>, ValidArticles(articles), now)

\* ------------------------------------------------------------ statistics

\* a.bias_rating && a.bias_rating.includes(sub), over the ratings of src/types.ts
Includes(bias_rating, sub) ==
    /\ bias_rating # Null
    /\ \/ sub = "Left"  /\ Val(bias_rating) \in {"Far Left", "Left", "Center Left"}
       \/ sub = "Right" /\ Val(bias_rating) \in {"Far Right", "Right", "Center Right"}

CountLeft(articles) ==
    Cardinality({k \in 1..Len(articles) : Includes(articles[k].bias_rating, "Left")})

CountRight(articles) ==
    Cardinality({k \in 1..Len(articles) :
        /\ ~Includes(articles[k].bias_rating, "Left")
        /\ Includes(articles[k].bias_rating, "Right")})

\* The stats object with a cluster called blind when half its members lean
\* one way
ComputeStatsHalfIsBlind(articles) ==
    LET total == Len(articles)
        leftPct == MathRoundPct(CountLeft(articles), total)
        rightPct == MathRoundPct(CountRight(articles), total)
        first == IF rightPct < 15 /\ leftPct >= 50 THEN "Right" ELSE "None"
        blindspot == IF leftPct < 15 /\ rightPct >= 50 THEN "Left" ELSE first
    IN  [totalSources |-> total,
         biasDistribution |-> [left |-> leftPct, center |-> 100 - leftPct - rightPct,
                               right |-> rightPct],
         blindspot |-> blindspot]

\* The stats object built for a cluster before it is inserted.
ComputeStats(articles) ==
    LET total == Len(articles)
        leftPct == MathRoundPct(CountLeft(articles), total)
        rightPct == MathRoundPct(CountRight(articles), total)
        first == IF rightPct < 15 /\ leftPct > 50 THEN "Right" ELSE "None"
        blindspot == IF leftPct < 15 /\ rightPct > 50 THEN "Left" ELSE first
    IN  [totalSources |-> total,
         biasDistribution |-> [left |-> leftPct, center |-> 100 - leftPct - rightPct,
                               right |-> rightPct],
         blindspot |-> blindspot]

\* ------------------------------------------------------------- the state

VARIABLES
    store,      \* the database as the shared connection sees it
    committed,  \* the database as of the last commit
    inTx,       \* the connection has an open transaction
    crashed,    \* the process has ended on an unhandled 'error' event
    models,     \* embedder, nerModel, nerDisabled
    run,        \* the pipeline requests: position and locals of each handler
    faults,     \* failures injected so far
    now,        \* Date.now(), in hours
    input,      \* SpecCluster, SpecStats: the argument of the function under check
    output,     \* SpecCluster, SpecStats: its result
    phase       \* SpecCluster, SpecStats: "init", then "done"

pureVars == << input, output, phase >>
serverVars == << store, committed, inTx, crashed, models, run, faults, now >>
vars == << store, committed, inTx, crashed, models, run, faults, now,
           input, output, phase >>

\* ------------------------------------------------- the clusterer's inputs

Vec(px, py) == << (px * Scale) \div 100, (py * Scale) \div 100 >>

H1 == << "A", "b" >>
H1v == << " ", "a", "B", " " >>
H2 == << "b", "a" >>
H3 == << "a" >>

\* The articles the clusterer is run on: duplicates by headline (1, 2, 5), a
\* near-duplicate by cosine (3 of 1: 0.96), a centroid neighbour (4 of 1: 0.60),
\* an article outside the time window (5), one without an embedding (6), one of
\* another dimension (7) and one without a pubDate (8).
ClusterArticle(id) ==
    CASE id = 1 -> [id |-> 1, headline |-> H1,  embedding |-> Some(Vec(100, 0)), pubDate |-> Some(0)]
      [] id = 2 -> [id |-> 2, headline |-> H1v, embedding |-> Some(Vec(0, 100)), pubDate |-> Some(10)]
      [] id = 3 -> [id |-> 3, headline |-> H2,  embedding |-> Some(Vec(96, 28)), pubDate |-> Some(20)]
      [] id = 4 -> [id |-> 4, headline |-> H3,  embedding |-> Some(Vec(60, 80)), pubDate |-> Some(30)]
      [] id = 5 -> [id |-> 5, headline |-> H1,  embedding |-> Some(Vec(100, 0)), pubDate |-> Some(60)]
      [] id = 6 -> [id |-> 6, headline |-> H2,  embedding |-> Null,              pubDate |-> Some(0)]
      [] id = 7 -> [id |-> 7, headline |-> H3,  embedding |-> Some(<< Scale >>), pubDate |-> Null]
      [] OTHER  -> [id |-> 8, headline |-> H2,  embedding |-> Some(Vec(0, 100)), pubDate |-> Null]

ClusterArticleIds == 1..8

\* Date.now() at the call
NowValues == {0, 100}

\* The lists of distinct elements of S of length at most n
RECURSIVE DistinctSeqs(_, _)
DistinctSeqs(S, n) ==
    IF n = 0 THEN {<< >>}
    ELSE LET shorter == DistinctSeqs(S, n - 1)
             longest == {p \in shorter \X S :
                            /\ Len(p[1]) = n - 1
                            /\ \A k \in 1..Len(p[1]) : p[1][k] # p[2]}
         IN  shorter \cup {Append(p[1], p[2]) : p \in longest}

ClusterInputs ==
    {[articles |-> [k \in 1..Len(q) |-> ClusterArticle(q[k])], now |-> n] :
        q \in DistinctSeqs(ClusterArticleIds, MaxLen), n \in NowValues}

\* ------------------------------------------------ the statistics' inputs

Repeat(x, n) == [k \in 1..n |-> x]

\* l members of a rating that contains "Left", r of one that contains "Right"
\* and c of neither, for every split of at most MaxMembers members.
StatsInputs ==
    {[k \in 1..(t[1] + t[2] + t[3]) |->
        [bias_rating |-> IF k <= t[1] THEN Some(n[1])
                         ELSE IF k <= t[1] + t[2] THEN Some(n[2])
                         ELSE n[3]]] :
        t \in {u \in (0..MaxMembers) \X (0..MaxMembers) \X (0..MaxMembers) :
                  u[1] + u[2] + u[3] >= 1 /\ u[1] + u[2] + u[3] <= MaxMembers},
        n \in {"Left", "Center Left", "Far Left"} \X {"Right", "Center Right"}
              \X {Some("Center"), Null}}

\* ------------------------------------------------------------- the store

\* The articles the ingestion endpoint is sent.  text is the vector the
\* embedder returns for the article's text, entity the vector it returns for
\* the joined entity list (Null: the entity extractor finds no entity).
Article(id) ==
    CASE id = 1 -> [id |-> 1, headline |-> H1,  pubDate |-> Some(0), bias_rating |-> Some("Left"),
                    text |-> Vec(100, 0), entity |-> Null]
      [] id = 2 -> [id |-> 2, headline |-> H1v, pubDate |-> Some(1), bias_rating |-> Some("Right"),
                    text |-> Vec(0, 100), entity |-> Null]
      [] id = 3 -> [id |-> 3, headline |-> H1,  pubDate |-> Some(2), bias_rating |-> Some("Center"),
                    text |-> Vec(0 - 100, 0), entity |-> Null]
      [] id = 4 -> [id |-> 4, headline |-> H2,  pubDate |-> Some(3), bias_rating |-> Some("Center Left"),
                    text |-> Vec(0 - 96, 28), entity |-> Some(Vec(0 - 100, 0))]
      [] OTHER  -> [id |-> 5, headline |-> H3,  pubDate |-> Some(4), bias_rating |-> Some("Right"),
                    text |-> Vec(0, 0 - 100), entity |-> Null]

\* Cluster ids.  The code draws `cluster-${Date.now()}-${random}`: fresh each
\* time.  Here the id names the request that made it, the split of that request
\* it belongs to (0: the pipeline's own commit) and its place in the list.
ClusterId(r, split, k) == << r, split, k >>
\* The id of no cluster
ForeignId == << 0, 0, 0 >>

\* The cluster a client of the API has seen: the first one the first trigger
\* commits
KnownId == ClusterId(1, 0, 1)

\* The requests sent to the ingestion endpoint: a feed's batch, as the front
\* end sends it (clusterId undefined), and a single article that carries a
\* clusterId: the id of no cluster, or the id of the stored cluster the client
\* has seen.
FeedOrder == << 4, 1, 2, 3 >>

FeedBatch == [i \in 1..Len(FeedOrder) |-> [id |-> FeedOrder[i], clusterId |-> Null]]

IngestRequests ==
    {FeedBatch} \cup
    {<< [id |-> 5, clusterId |-> Some(c)] >> : c \in {ForeignId} \cup ({KnownId} \cap DOMAIN store.clusters)}

EmptyStore == [articles |-> << >>, clusters |-> << >>]

\* The rows of news_articles with cluster_id = c
Members(db, c) == {a \in DOMAIN db.articles : db.articles[a].cluster_id = Some(c)}

\* All orders in which a SELECT without ORDER BY may return the rows S
RECURSIVE SetToSeq(_)
SetToSeq(S) ==
    IF S = {} THEN << >>
    ELSE LET x == CHOOSE y \in S : \A z \in S : y <= z
         IN  << x >> \o SetToSeq(S \ {x})

\* The orders in which a SELECT without ORDER BY returns the rows S: the
\* order of the index on id, or the order of insertion (the feed's rows in
\* the order of the batch, the single article's row wherever it falls: it has
\* no embedding and no reader looks at its place).
RowOrders(S) ==
    { SetToSeq(S),
      SelectSeq(FeedOrder, LAMBDA a : a \in S) \o SetToSeq(S \ {FeedOrder[i] : i \in 1..Len(FeedOrder)}) }

IdleRun ==
    [pc |-> "idle", found |-> 0, rows |-> << >>, labeled |-> << >>, k |-> 0, made |-> 0,
     todo |-> {}, old |-> ForeignId, oldExisted |-> FALSE, oldMembers |-> {}, newIds |-> {},
     commitIds |-> {}, splits |-> 0, failed |-> "none", response |-> "none"]

RunIds == 1..MaxRuns

InitServer ==
    /\ store = EmptyStore
    /\ committed = EmptyStore
    /\ inTx = FALSE
    /\ crashed = FALSE
    /\ models = [embedder |-> FALSE, nerModel |-> FALSE, nerDisabled |-> FALSE]
    /\ run = [r \in RunIds |-> IdleRun]
    /\ faults = 0
    /\ now = 0

\* db.run / stmt.run without a callback fails: node-sqlite3 emits 'error' on
\* the statement, nothing listens, and Node ends the process.  The open
\* transaction is never committed, so the database file is as of the last commit.
Crash ==
    /\ crashed' = TRUE
    /\ store' = committed
    /\ inTx' = FALSE
    /\ UNCHANGED << committed, models, run, now >>

\* A write statement that succeeded: outside a transaction SQLite commits it
\* at once.
Written(db) ==
    /\ store' = db
    /\ committed' = IF inTx THEN committed ELSE db

\* ---------------------------------------------------------- POST /api/articles

\* INSERT ... ON CONFLICT(id) DO UPDATE SET fetched_at, headline, image_url:
\* a new row takes cluster_id = a.clusterId || null and the embedding sent
\* (none here); a stored row keeps its cluster_id and its embedding.
UpsertRow(db, a) ==
    IF a.id \in DOMAIN db.articles THEN db
    ELSE [db EXCEPT !.articles = (a.id :> [cluster_id |-> a.clusterId, embedding |-> Null]) @@ @]

RECURSIVE UpsertAll(_, _)
UpsertAll(db, articles) ==
    IF articles = << >> THEN db
    ELSE UpsertAll(UpsertRow(db, Head(articles)), Tail(articles))

\* The whole serialized block: BEGIN, the INSERTs, COMMIT.  The statements
\* are queued in one turn of the event loop, so no other statement runs
\* between them; BEGIN fails when a transaction is open.
Ingest(articles) ==
    /\ ~crashed
    /\ IF inTx
       THEN Crash /\ UNCHANGED faults
       ELSE /\ store' = UpsertAll(store, articles)
            /\ committed' = store'
            /\ UNCHANGED << inTx, crashed, models, run, faults, now >>
    /\ UNCHANGED pureVars

\* ------------------------------------------------ POST /api/pipeline/process

\* 72 hours
SELECT_WINDOW == 72

\* SELECT * FROM news_articles WHERE cluster_id IS NULL AND pub_date > ? LIMIT 50
\* (the model holds fewer than 50 articles).  The statement has no ORDER BY:
\* the rows come in an order the engine picks, and run[r].rows keeps it.
Unclustered(db) ==
    {a \in DOMAIN db.articles :
        /\ db.articles[a].cluster_id = Null
        /\ Article(a).pubDate # Null
        /\ Val(Article(a).pubDate) > now - SELECT_WINDOW}

\* The select with the maintenance path taken for an empty result only
SelectUnclusteredOnlyEmpty(r) ==
    /\ ~crashed
    /\ run[r].pc = "idle"
    /\ \A p \in RunIds : p < r => run[p].pc # "idle"
    /\ \E q \in RowOrders(Unclustered(store)) :
         run' = [run EXCEPT ![r] =
                IF Len(q) < 1
                THEN [@ EXCEPT !.pc = "refine", !.found = Len(q)]
                ELSE [@ EXCEPT !.pc = "enrich", !.found = Len(q),
                               !.rows = [i \in 1..Len(q) |->
                                            [id |-> q[i],
                                             embedding |-> store.articles[q[i]].embedding]]]]
    /\ UNCHANGED << store, committed, inTx, crashed, models, faults, now >>
    /\ UNCHANGED pureVars

\* rows.length < 2: refineClusters is awaited and the request answered;
\* found is rows.length.
SelectUnclustered(r) ==
    /\ ~crashed
    /\ run[r].pc = "idle"
    /\ \A p \in RunIds : p < r => run[p].pc # "idle"
    /\ \E q \in RowOrders(Unclustered(store)) :
         run' = [run EXCEPT ![r] =
                IF Len(q) < 2
                THEN [@ EXCEPT !.pc = "refine", !.found = Len(q)]
                ELSE [@ EXCEPT !.pc = "enrich", !.found = Len(q),
                               !.rows = [i \in 1..Len(q) |->
                                            [id |-> q[i],
                                             embedding |-> store.articles[q[i]].embedding]]]]
    /\ UNCHANGED << store, committed, inTx, crashed, models, faults, now >>
    /\ UNCHANGED pureVars

\* The entity extractor loaded again after it failed to load
NerAttemptedAgain(m) == ~m.nerModel

\* if (!nerModel && !nerDisabled): initModels tries to load the entity
\* extractor
NerAttempted(m) == ~m.nerModel /\ ~m.nerDisabled

\* The articles on whose text the embedding model can throw
Unreliable == {3}

\* What enrichArticles pushes for an article whose inference succeeds.
EnrichedEmbedding(a, nerModel) ==
    LET textVector == Article(a).text
        entity == Article(a).entity
        finalVector == IF nerModel /\ entity # Null
                       THEN weightedVectorAdd(textVector, Val(entity), 7, 3)
                       ELSE textVector
    IN  normalizeVector(finalVector)

\* The embeddings of the list enrichArticles returns: in the catch the
\* article is pushed as it came, with the embedding its row held.
enrichArticles(rows, F, nerModel) ==
    [i \in 1..Len(rows) |->
        IF rows[i].id \in F THEN rows[i].embedding
        ELSE Some(EnrichedEmbedding(rows[i].id, nerModel))]

\* The article objects the clusterer and the statistics read: the rows of
\* SELECT *, which carry pub_date and no pubDate.
ArticleObject(a, embedding) ==
    [id |-> a, headline |-> Article(a).headline, pubDate |-> Null,
     bias_rating |-> Article(a).bias_rating, embedding |-> embedding]

\* The member ids of each micro-cluster.  The INSERT and the UPDATE that
\* follow read the members' number, their bias_rating and their ids, not
\* their order.
MemberIds(clusters) ==
    [i \in 1..Len(clusters) |->
        {clusters[i].articles[k].id : k \in 1..Len(clusters[i].articles)}]

\* UPDATE news_articles SET embedding = ?, entities = ? WHERE id = ?, for each
PersistEnrichment(db, emb) ==
    [db EXCEPT !.articles =
        [a \in DOMAIN @ |-> IF a \in DOMAIN emb THEN [@[a] EXCEPT !.embedding = emb[a]]
                            ELSE @[a]]]

\* The ids of the rows a SELECT returned
RowIds(rows) == {rows[i].id : i \in 1..Len(rows)}

\* The failure to load the embedding model swallowed: the request goes on to
\* the refiner
EnrichInitFailsQuietly(r) ==
    /\ ~crashed
    /\ run[r].pc = "enrich"
    /\ ~models.embedder
    /\ faults < MaxFaults
    /\ faults' = faults + 1
    /\ run' = [run EXCEPT ![r] = [@ EXCEPT !.pc = "refine", !.rows = << >>]]
    /\ UNCHANGED << store, committed, inTx, crashed, models, now >>
    /\ UNCHANGED pureVars

\* initModels throws: the embedding model cannot be loaded.  The handler's
\* catch answers 500 {success: false} in the same turn.
EnrichInitFails(r) ==
    /\ ~crashed
    /\ run[r].pc = "enrich"
    /\ ~models.embedder
    /\ faults < MaxFaults
    /\ faults' = faults + 1
    /\ run' = [run EXCEPT ![r] = [@ EXCEPT !.pc = "done", !.rows = << >>, !.response = "error"]]
    /\ UNCHANGED << store, committed, inTx, crashed, models, now >>
    /\ UNCHANGED pureVars

\* enrichArticles, the persist block and clusterArticles; generateLabels keeps
\* every micro-cluster, in order.  nerOK: the NER model loads; F: the articles
\* whose inference throws; wfail: a statement of the persist block fails.  The
\* articles are enriched and clustered in the order of the selected rows.
EnrichPersistCluster(r) ==
    /\ ~crashed
    /\ run[r].pc = "enrich"
    /\ \E nerOK \in BOOLEAN, F \in SUBSET (RowIds(run[r].rows) \cap Unreliable), wfail \in BOOLEAN :
         LET nerTry == NerAttempted(models)
             rows == run[r].rows
             nerModel == models.nerModel \/ (nerTry /\ nerOK)
             cost == (IF nerTry /\ ~nerOK THEN 1 ELSE 0) + Cardinality(F)
                     + (IF wfail THEN 1 ELSE 0)
             enriched == enrichArticles(rows, F, nerModel)
             emb == [a \in RowIds(rows) |->
                        enriched[CHOOSE i \in 1..Len(rows) : rows[i].id = a]]
         IN  /\ nerTry \/ nerOK
             /\ ~(inTx /\ wfail)
             /\ faults + cost <= MaxFaults
             /\ faults' = faults + cost
             /\ models' = [embedder |-> TRUE, nerModel |-> nerModel,
                           nerDisabled |-> models.nerDisabled \/ (nerTry /\ ~nerOK)]
             /\ IF inTx \/ wfail
                THEN /\ crashed' = TRUE
                     /\ store' = committed
                     /\ inTx' = FALSE
                     /\ run' = [run EXCEPT ![r] =
                                  [@ EXCEPT !.failed = IF wfail THEN "persist" ELSE @]]
                     /\ UNCHANGED << committed, now >>
                ELSE /\ store' = PersistEnrichment(store, emb)
                     /\ committed' = store'
                     /\ LET enrichedArticles ==
                                [i \in 1..Len(rows) |-> ArticleObject(rows[i].id, enriched[i])]
                            rawClusters == clusterArticles(enrichedArticles, now)
                        IN  run' = [run EXCEPT ![r] =
                                      [@ EXCEPT !.pc = "begin", !.rows = << >>,
                                                !.labeled = MemberIds(rawClusters)]]
                     /\ UNCHANGED << inTx, crashed, now >>
    /\ UNCHANGED pureVars

\* The statistics of labeled cluster k of run r, from the members' bias_rating
StatsOf(members) ==
    LET ids == SetToSeq(members)
    IN  ComputeStats([i \in 1..Len(ids) |-> ArticleObject(ids[i], Null)])

\* INSERT INTO news_clusters
InsertCluster(db, id, members) ==
    [db EXCEPT !.clusters = (id :> [stats |-> StatsOf(members), created_at |-> now]) @@ @]

\* UPDATE news_articles SET cluster_id = ? WHERE id IN (...)
AssignCluster(db, id, members) ==
    [db EXCEPT !.articles =
        [a \in DOMAIN @ |->
            IF a \in members
            THEN [@[a] EXCEPT !.cluster_id = Some(id)]
            ELSE @[a]]]

\* DELETE FROM news_clusters WHERE id = ?
DeleteCluster(db, id) ==
    [db EXCEPT !.clusters = [c \in DOMAIN @ \ {id} |-> @[c]]]

\* await run("BEGIN TRANSACTION"): rejected when a transaction is open
CommitBegin(r) ==
    /\ ~crashed
    /\ run[r].pc = "begin"
    /\ IF inTx
       THEN /\ run' = [run EXCEPT ![r] = [@ EXCEPT !.pc = "rollback"]]
            /\ UNCHANGED inTx
       ELSE /\ inTx' = TRUE
            /\ run' = [run EXCEPT ![r] =
                         [@ EXCEPT !.pc = IF run[r].labeled = << >> THEN "commit" ELSE "insert",
                                   !.k = 1]]
    /\ UNCHANGED << store, committed, crashed, models, faults, now >>
    /\ UNCHANGED pureVars

\* dbClusters.push(clusterData); await run(INSERT INTO news_clusters ...)
CommitInsert(r) ==
    /\ ~crashed
    /\ run[r].pc = "insert"
    /\ \/ /\ Written(InsertCluster(store, ClusterId(r, 0, run[r].k), run[r].labeled[run[r].k]))
          /\ run' = [run EXCEPT ![r] =
                       [@ EXCEPT !.pc = "update", !.made = @ + 1,
                                 !.commitIds = @ \cup {ClusterId(r, 0, run[r].k)}]]
          /\ UNCHANGED faults
       \/ /\ faults < MaxFaults
          /\ faults' = faults + 1
          /\ run' = [run EXCEPT ![r] = [@ EXCEPT !.pc = "rollback", !.failed = "commit"]]
          /\ UNCHANGED << store, committed >>
    /\ UNCHANGED << inTx, crashed, models, now >>
    /\ UNCHANGED pureVars

\* await run(UPDATE news_articles SET cluster_id = ? WHERE id IN (...))
CommitUpdate(r) ==
    /\ ~crashed
    /\ run[r].pc = "update"
    /\ \/ /\ Written(AssignCluster(store, ClusterId(r, 0, run[r].k), run[r].labeled[run[r].k]))
          /\ run' = [run EXCEPT ![r] =
                       [@ EXCEPT !.pc = IF run[r].k = Len(run[r].labeled) THEN "commit" ELSE "insert",
                                 !.k = @ + 1]]
          /\ UNCHANGED faults
       \/ /\ faults < MaxFaults
          /\ faults' = faults + 1
          /\ run' = [run EXCEPT ![r] = [@ EXCEPT !.pc = "rollback", !.failed = "commit"]]
          /\ UNCHANGED << store, committed >>
    /\ UNCHANGED << inTx, crashed, models, now >>
    /\ UNCHANGED pureVars

\* await run("COMMIT"): rejected when no transaction is open
CommitCommit(r) ==
    /\ ~crashed
    /\ run[r].pc = "commit"
    /\ IF inTx
       THEN /\ committed' = store
            /\ inTx' = FALSE
            /\ run' = [run EXCEPT ![r] = [@ EXCEPT !.pc = "refine", !.labeled = << >>,
                                                   !.k = 0]]
       ELSE /\ run' = [run EXCEPT ![r] = [@ EXCEPT !.pc = "rollback"]]
            /\ UNCHANGED << committed, inTx >>
    /\ UNCHANGED << store, crashed, models, faults, now >>
    /\ UNCHANGED pureVars

\* catch (err) { await run("ROLLBACK"); throw err; }: the handler's catch
\* answers 500 {success: false}, whether ROLLBACK succeeds or is rejected
\* ("no transaction is active"), in the turn in which ROLLBACK settles.
CommitRollback(r) ==
    /\ ~crashed
    /\ run[r].pc = "rollback"
    /\ IF inTx
       THEN /\ store' = committed
            /\ inTx' = FALSE
       ELSE UNCHANGED << store, inTx >>
    /\ run' = [run EXCEPT ![r] = [@ EXCEPT !.pc = "done", !.response = "error",
                                           !.labeled = << >>, !.k = 0]]
    /\ UNCHANGED << committed, crashed, models, faults, now >>
    /\ UNCHANGED pureVars

\* ------------------------------------------------------------ refineClusters

\* 24 hours
REFINE_WINDOW == 24

\* SELECT * FROM news_clusters WHERE created_at > ? (one day ago)
RecentClusters(db) ==
    {c \in DOMAIN db.clusters : db.clusters[c].created_at > now - REFINE_WINDOW}

\* const clusters = await all(...); a read that is rejected is caught by the
\* outer catch, which logs it: refineClusters returns and the handler answers
\* {success: true}.
RefineSelect(r) ==
    /\ ~crashed
    /\ run[r].pc = "refine"
    /\ \/ /\ run' = [run EXCEPT ![r] =
                       [@ EXCEPT !.pc = "refineLoop",
                                 !.todo = RecentClusters(store)]]
          /\ UNCHANGED faults
       \/ /\ faults < MaxFaults
          /\ faults' = faults + 1
          /\ run' = [run EXCEPT ![r] = [@ EXCEPT !.pc = "done", !.response = "ok"]]
    /\ UNCHANGED << store, committed, inTx, crashed, models, now >>
    /\ UNCHANGED pureVars

\* The centroid of the members: the elementwise sum, normalized
CoherenceCentroid(articles) ==
    LET RECURSIVE Sum(_, _)
        Sum(acc, i) ==
            IF i > Len(articles) THEN acc
            ELSE Sum(weightedVectorAdd(acc, Val(articles[i].embedding), 10, 10), i + 1)
        zero == [i \in 1..Len(Val(articles[1].embedding)) |-> 0]
    IN  normalizeVector(Sum(zero, 1))

\* totalSim / articles.length
AvgSim(articles) ==
    LET centroid == CoherenceCentroid(articles)
        totalSim == SumTo([i \in 1..Len(articles) |->
                             cosineSimilarity(articles[i].embedding, Some(centroid))],
                          Len(articles))
    IN  IF totalSim >= 0 THEN RoundDiv(totalSim, Len(articles))
        ELSE 0 - RoundDiv(0 - totalSim, Len(articles))

\* The plan that replaces a cluster by the one micro-cluster its members make
SplitPlanEvenIfOne(articlesRaw) ==
    IF Len(articlesRaw) < 4 THEN << >>
    ELSE LET articles == SelectSeq(articlesRaw,
                             LAMBDA a : a.embedding # Null /\ Len(Val(a.embedding)) > 0)
         IN  IF Len(articles) < 4 THEN << >>
             ELSE IF AvgSim(articles) < COHERENCE_THRESHOLD
             THEN MemberIds(clusterArticles(articles, now))
             ELSE << >>

\* The micro-clusters a cluster is to be replaced by, given its rows in the
\* order read: << >> when the cluster is left alone.
SplitPlan(articlesRaw) ==
    IF Len(articlesRaw) < 4 THEN << >>
    ELSE LET articles == SelectSeq(articlesRaw,
                             LAMBDA a : a.embedding # Null /\ Len(Val(a.embedding)) > 0)
         IN  IF Len(articles) < 4 THEN << >>
             ELSE IF AvgSim(articles) < COHERENCE_THRESHOLD
             THEN LET newMicroClusters == clusterArticles(articles, now)
                  IN  IF Len(newMicroClusters) > 1 THEN MemberIds(newMicroClusters)
                      ELSE << >>
             ELSE << >>

\* The loop over the clusters read: the next cluster c, its rows in the order q.
\* A read of the members that is rejected, or a labeling that throws, is caught
\* by the outer catch: refineClusters returns and the handler answers
\* {success: true}.
RefineCluster(r) ==
    /\ ~crashed
    /\ run[r].pc = "refineLoop"
    /\ run[r].todo # {}
    /\ \/ /\ \E c \in run[r].todo :
               \E q \in RowOrders(Members(store, c)) :
                 LET articlesRaw == [i \in 1..Len(q) |->
                                        ArticleObject(q[i], store.articles[q[i]].embedding)]
                     plan == SplitPlan(articlesRaw)
                 IN  run' = [run EXCEPT ![r] =
                               IF plan = << >>
                               THEN [@ EXCEPT !.todo = @ \ {c}]
                               ELSE [@ EXCEPT !.todo = @ \ {c}, !.pc = "splitBegin",
                                              !.old = c, !.labeled = plan,
                                              !.splits = @ + 1]]
          /\ UNCHANGED faults
       \/ /\ faults < MaxFaults
          /\ faults' = faults + 1
          /\ run' = [run EXCEPT ![r] = [@ EXCEPT !.pc = "done", !.todo = {},
                                                 !.response = "ok"]]
    /\ UNCHANGED << store, committed, inTx, crashed, models, now >>
    /\ UNCHANGED pureVars

\* The loop is over: refineClusters returns and the handler answers
\* {success: true} in the same turn.
RefineDone(r) ==
    /\ ~crashed
    /\ run[r].pc = "refineLoop"
    /\ run[r].todo = {}
    /\ run' = [run EXCEPT ![r] = [@ EXCEPT !.pc = "done", !.response = "ok"]]
    /\ UNCHANGED << store, committed, inTx, crashed, models, faults, now >>
    /\ UNCHANGED pureVars

\* What a split leaves behind in the run's record when it is over
SplitOver(rec, pc) ==
    [rec EXCEPT !.pc = pc, !.labeled = << >>, !.k = 0, !.old = ForeignId,
                !.oldExisted = FALSE, !.oldMembers = {}, !.newIds = {}]

\* await run("BEGIN TRANSACTION").  oldExisted and oldMembers keep what the
\* connection showed of the old cluster when the split was attempted.
SplitBegin(r) ==
    /\ ~crashed
    /\ run[r].pc = "splitBegin"
    /\ run' = [run EXCEPT ![r] =
                 [@ EXCEPT !.pc = IF inTx THEN "splitRollback" ELSE "splitDelete",
                           !.oldExisted = run[r].old \in DOMAIN store.clusters,
                           !.oldMembers = Members(store, run[r].old)]]
    /\ inTx' = TRUE
    /\ UNCHANGED << store, committed, crashed, models, faults, now >>
    /\ UNCHANGED pureVars

\* await run(DELETE FROM news_clusters WHERE id = ?)
SplitDelete(r) ==
    /\ ~crashed
    /\ run[r].pc = "splitDelete"
    /\ \/ /\ Written(DeleteCluster(store, run[r].old))
          /\ run' = [run EXCEPT ![r] = [@ EXCEPT !.pc = "splitInsert", !.k = 1]]
          /\ UNCHANGED faults
       \/ /\ faults < MaxFaults
          /\ faults' = faults + 1
          /\ run' = [run EXCEPT ![r] = [@ EXCEPT !.pc = "splitRollback"]]
          /\ UNCHANGED << store, committed >>
    /\ UNCHANGED << inTx, crashed, models, now >>
    /\ UNCHANGED pureVars

\* await run(INSERT INTO news_clusters ...), for sub-cluster k
SplitInsert(r) ==
    /\ ~crashed
    /\ run[r].pc = "splitInsert"
    /\ \/ /\ Written(InsertCluster(store, ClusterId(r, run[r].splits, run[r].k),
                                    run[r].labeled[run[r].k]))
          /\ run' = [run EXCEPT ![r] =
                       [@ EXCEPT !.pc = "splitUpdate",
                                 !.newIds = @ \cup {ClusterId(r, run[r].splits, run[r].k)}]]
          /\ UNCHANGED faults
       \/ /\ faults < MaxFaults
          /\ faults' = faults + 1
          /\ run' = [run EXCEPT ![r] = [@ EXCEPT !.pc = "splitRollback"]]
          /\ UNCHANGED << store, committed >>
    /\ UNCHANGED << inTx, crashed, models, now >>
    /\ UNCHANGED pureVars

\* await run(UPDATE news_articles SET cluster_id = ? WHERE id IN (...))
SplitUpdate(r) ==
    /\ ~crashed
    /\ run[r].pc = "splitUpdate"
    /\ \/ /\ Written(AssignCluster(store, ClusterId(r, run[r].splits, run[r].k),
                                    run[r].labeled[run[r].k]))
          /\ run' = [run EXCEPT ![r] =
                       [@ EXCEPT !.pc = IF run[r].k = Len(run[r].labeled)
                                        THEN "splitCommit" ELSE "splitInsert",
                                 !.k = @ + 1]]
          /\ UNCHANGED faults
       \/ /\ faults < MaxFaults
          /\ faults' = faults + 1
          /\ run' = [run EXCEPT ![r] = [@ EXCEPT !.pc = "splitRollback"]]
          /\ UNCHANGED << store, committed >>
    /\ UNCHANGED << inTx, crashed, models, now >>
    /\ UNCHANGED pureVars

\* await run("COMMIT")
SplitCommit(r) ==
    /\ ~crashed
    /\ run[r].pc = "splitCommit"
    /\ IF inTx
       THEN /\ committed' = store
            /\ inTx' = FALSE
            /\ run' = [run EXCEPT ![r] = SplitOver(@, "refineLoop")]
       ELSE /\ run' = [run EXCEPT ![r] = [@ EXCEPT !.pc = "splitRollback"]]
            /\ UNCHANGED << committed, inTx >>
    /\ UNCHANGED << store, crashed, models, faults, now >>
    /\ UNCHANGED pureVars

\* catch (txError) { await run("ROLLBACK"); ... }: the loop goes on; a rejected
\* ROLLBACK is caught by the outer catch, which logs it: refineClusters
\* returns and the handler answers {success: true}.
SplitRollback(r) ==
    /\ ~crashed
    /\ run[r].pc = "splitRollback"
    /\ IF inTx
       THEN /\ store' = committed
            /\ inTx' = FALSE
            /\ run' = [run EXCEPT ![r] = SplitOver(@, "refineLoop")]
       ELSE /\ run' = [run EXCEPT ![r] = SplitOver([@ EXCEPT !.todo = {}, !.response = "ok"], "done")]
            /\ UNCHANGED << store, inTx >>
    /\ UNCHANGED << committed, crashed, models, faults, now >>
    /\ UNCHANGED pureVars

\* ------------------------------------------------------- the server's runs

IdlePure ==
    /\ input = << >>
    /\ output = << >>
    /\ phase = "off"

Init == InitServer /\ IdlePure

Next ==
    \/ \E articles \in IngestRequests : Ingest(articles)
    \/ \E r \in RunIds : SelectUnclustered(r)
    \/ \E r \in RunIds : EnrichInitFails(r)
    \/ \E r \in RunIds : EnrichPersistCluster(r)
    \/ \E r \in RunIds : CommitBegin(r)
    \/ \E r \in RunIds : CommitInsert(r)
    \/ \E r \in RunIds : CommitUpdate(r)
    \/ \E r \in RunIds : CommitCommit(r)
    \/ \E r \in RunIds : CommitRollback(r)
    \/ \E r \in RunIds : RefineSelect(r)
    \/ \E r \in RunIds : RefineCluster(r)
    \/ \E r \in RunIds : RefineDone(r)
    \/ \E r \in RunIds : SplitBegin(r)
    \/ \E r \in RunIds : SplitDelete(r)
    \/ \E r \in RunIds : SplitInsert(r)
    \/ \E r \in RunIds : SplitUpdate(r)
    \/ \E r \in RunIds : SplitCommit(r)
    \/ \E r \in RunIds : SplitRollback(r)

Spec == Init /\ [][Next]_vars

\* ------------------------------------------- the pure functions' runs

InitCluster ==
    /\ InitServer
    /\ input \in ClusterInputs
    /\ output = << >>
    /\ phase = "init"

\* rawClusters = clusterArticles(enrichedArticles)
RunClusterArticles ==
    /\ phase = "init"
    /\ output' = clusterArticles(input.articles, input.now)
    /\ phase' = "done"
    /\ UNCHANGED input
    /\ UNCHANGED serverVars

NextCluster == RunClusterArticles

SpecCluster == InitCluster /\ [][NextCluster]_vars

InitStats ==
    /\ InitServer
    /\ input \in StatsInputs
    /\ output = << >>
    /\ phase = "init"

\* the stats of one labeled cluster
RunComputeStats ==
    /\ phase = "init"
    /\ output' = ComputeStats(input)
    /\ phase' = "done"
    /\ UNCHANGED input
    /\ UNCHANGED serverVars

NextStats == RunComputeStats

SpecStats == InitStats /\ [][NextStats]_vars

\* ------------------------------------- the clusterer, article by article

\* An article at the same cosine (0.707) from two orthogonal centroids
TieArticle ==
    [id |-> 9, headline |-> << "b" >>, embedding |-> Some(Vec(71, 71)), pubDate |-> Some(5)]

\* The lists of ClusterInputs, and the lists that end with the tie article
\* after two articles that make two clusters.
ConsumeInputs ==
    ClusterInputs \cup
    {[articles |-> << ClusterArticle(q[1]), ClusterArticle(q[2]), TieArticle >>, now |-> n] :
        q \in {<< 1, 8 >>, << 8, 1 >>, << 4, 1 >>}, n \in NowValues}

\* Here output is microClusters and phase the number of validArticles the
\* loop has consumed.
InitConsume ==
    /\ InitServer
    /\ input \in ConsumeInputs
    /\ output = << >>
    /\ phase = 0

\* for (const article of validArticles) { ... }: one iteration
ConsumeNext ==
    /\ phase < Len(ValidArticles(input.articles))
    /\ output' = ConsumeArticle(output, ValidArticles(input.articles)[phase + 1], input.now)
    /\ phase' = phase + 1
    /\ UNCHANGED input
    /\ UNCHANGED serverVars

NextConsume == ConsumeNext

SpecConsume == InitConsume /\ [][NextConsume]_vars

\* ------------------------------------------ the clusterer, called twice

\* A list of articles, the time of the first call and the time of the second
RepeatInputs ==
    {[articles |-> [k \in 1..Len(q) |-> ClusterArticle(q[k])], now |-> t[1], later |-> t[2]] :
        q \in DistinctSeqs(ClusterArticleIds, MaxLen),
        t \in {u \in NowValues \X NowValues : u[1] <= u[2]}}

\* Here output is the list of the results of the calls made so far.
InitRepeat ==
    /\ InitServer
    /\ input \in RepeatInputs
    /\ output = << >>
    /\ phase = "init"

\* clusterArticles(articles), Date.now() being input.now
RunFirst ==
    /\ phase = "init"
    /\ output' = << clusterArticles(input.articles, input.now) >>
    /\ phase' = "first"
    /\ UNCHANGED input
    /\ UNCHANGED serverVars

\* clusterArticles(articles) again, Date.now() being input.later
RunSecond ==
    /\ phase = "first"
    /\ output' = Append(output, clusterArticles(input.articles, input.later))
    /\ phase' = "done"
    /\ UNCHANGED input
    /\ UNCHANGED serverVars

NextRepeat == RunFirst \/ RunSecond

SpecRepeat == InitRepeat /\ [][NextRepeat]_vars

\* ------------------------------------------------------------ the claims

\* C1: in every committed state of the store, every article's clusterId is
\* null or the id of a stored cluster.
C1_ClusterIdsResolve ==
    \A a \in DOMAIN committed.articles :
        \/ committed.articles[a].cluster_id = Null
        \/ Val(committed.articles[a].cluster_id) \in DOMAIN committed.clusters

\* The positions of a request inside a split of the refiner
SplitPcs ==
    {"splitBegin", "splitDelete", "splitInsert", "splitUpdate", "splitCommit", "splitRollback"}

\* The split of request r replaced the old cluster in the database db
SplitReplaced(r, db) ==
    /\ run[r].old \notin DOMAIN db.clusters
    /\ Cardinality(run[r].newIds) >= 2
    /\ run[r].newIds \subseteq DOMAIN db.clusters
    /\ \A a \in run[r].oldMembers :
          db.articles[a].cluster_id \in {Some(c) : c \in run[r].newIds}

\* The split of request r left the old cluster in the database db as it was
SplitUndone(r, db) ==
    /\ run[r].old \in DOMAIN db.clusters
    /\ Members(db, run[r].old) = run[r].oldMembers
    /\ run[r].newIds \cap DOMAIN db.clusters = {}

\* C2: when a split of the refiner is over, the database holds one of two
\* outcomes: the old cluster is gone, at least two replacements are stored and
\* every article that pointed at the old cluster points at a replacement; or
\* the old cluster and its members are as they were before the split.
C2_SplitAllOrNothing ==
    [][\A r \in RunIds :
          (run[r].pc \in SplitPcs \ {"splitBegin"} /\ run'[r].pc \notin SplitPcs /\ ~crashed')
              => (SplitReplaced(r, committed') \/ SplitUndone(r, committed'))]_vars

\* What request r's commit has written that the database db holds: its
\* clusters and the articles that point at them
CommitWrites(r, db) ==
    (run[r].commitIds \cap DOMAIN db.clusters)
    \cup {a \in DOMAIN db.articles :
             db.articles[a].cluster_id \in {Some(c) : c \in run[r].commitIds}}

\* C3: a request in which a write of the persist block (step 3) or of the
\* cluster commit (step 5) failed ends with the answer success:false, and the
\* database holds none of its clusters and none of its assignments.
C3_FailedWriteRollsBack ==
    \A r \in RunIds :
        (run[r].failed # "none" /\ (run[r].pc = "done" \/ crashed))
            => /\ run[r].response = "error"
               /\ CommitWrites(r, committed) = {}

\* C4: the database never holds a part of a request's cluster commit: while
\* the commit is under way, and after it was given up, none of its clusters
\* and assignments is committed.
C4_CommitVisibleAtOnce ==
    \A r \in RunIds :
        (run[r].pc \in {"begin", "insert", "update", "commit", "rollback"}
            \/ run[r].response = "error")
            => CommitWrites(r, committed) = {}

\* The requests between their selection of articles and their answer
Executing == {r \in RunIds : run[r].pc \notin {"idle", "done"}}

\* C5: at most one pipeline request is executing at any moment.
C5_OneRunAtATime == crashed \/ Cardinality(Executing) <= 1

\* The ids the cluster commit of a pipeline request gives
IsCommitId(c) == c[1] \in RunIds /\ c[2] = 0

\* C6: an article whose committed clusterId is not null is never given another
\* cluster by the cluster commit of a pipeline request.
C6_AssignedOnce ==
    [][\A a \in DOMAIN committed.articles :
          LET before == committed.articles[a].cluster_id
              after == committed'.articles[a].cluster_id
          IN  (before # Null /\ after # before) => ~IsCommitId(Val(after))]_vars

\* C7: a split whose old cluster was not stored when its transaction began
\* inserts no replacement cluster.
C7_MissingClusterNotSplit ==
    \A r \in RunIds :
        (run[r].pc \in {"splitDelete", "splitInsert", "splitUpdate", "splitCommit"}
            /\ ~run[r].oldExisted)
            => run[r].newIds = {}

\* C8: in every committed state of the store, the totalSources of every
\* cluster is the number of articles whose clusterId is its id, and is at
\* least 1.
C8_TotalSourcesIsMemberCount ==
    \A c \in DOMAIN committed.clusters :
        /\ committed.clusters[c].stats.totalSources = Cardinality(Members(committed, c))
        /\ Cardinality(Members(committed, c)) >= 1

\* The members of all micro-clusters, as (cluster index, position) pairs
Slots(clusters) ==
    {p \in (1..Len(clusters)) \X (1..MaxLen + 1) : p[2] <= Len(clusters[p[1]].articles)}

\* C10: the clusterer's output is a partition of the input articles that have
\* an embedding: each of them is a member of exactly one micro-cluster, every
\* member is such an input article, and no micro-cluster is empty.
C10_Partition ==
    phase = "done" =>
        /\ \A k \in 1..Len(input.articles) :
              LET a == input.articles[k]
                  at == {p \in Slots(output) : output[p[1]].articles[p[2]].id = a.id}
              IN  IF a.embedding # Null THEN Cardinality(at) = 1 ELSE at = {}
        /\ \A p \in Slots(output) :
              \E k \in 1..Len(input.articles) :
                  input.articles[k] = output[p[1]].articles[p[2]]
        /\ \A i \in 1..Len(output) : output[i].articles # << >>

\* A run on a list with an article without an embedding that gives a
\* micro-cluster of two members.
C10_Witness ==
    /\ phase = "done"
    /\ \E k \in 1..Len(input.articles) : input.articles[k].embedding = Null
    /\ \E i \in 1..Len(output) : Len(output[i].articles) = 2

\* C9: the stored biasDistribution sums to 100 and each share is an integer
\* between 0 and 100.
C9_SharesWithinRange ==
    phase = "done" =>
        LET d == output.biasDistribution
        IN  /\ d.left + d.center + d.right = 100
            /\ d.left \in 0..100
            /\ d.center \in 0..100
            /\ d.right \in 0..100

\* ---------------------------------- claims on one iteration of the clusterer

\* The article the next iteration consumes, and its time
Incoming == ValidArticles(input.articles)[phase + 1]
IncomingTime == ArticleTime(Incoming, input.now)

\* The article the last iteration consumed
Consumed == ValidArticles(input.articles)[phase]

\* Micro-cluster i is within 48 hours of the incoming article
InWindow(i) == Abs(IncomingTime - output[i].latestTime) <= MAX_TIME_DIFF_MS

\* Micro-cluster i has a member with the incoming article's normalized headline
HasSameHeadline(i) ==
    \E k \in 1..Len(output[i].articles) :
        trim(toLowerCase(output[i].articles[k].headline)) = trim(toLowerCase(Incoming.headline))

\* Micro-cluster i has a member at cosine 0.90 or more of the incoming article
HasNearMember(i) ==
    \E k \in 1..Len(output[i].articles) :
        cosineSimilarity(Incoming.embedding, output[i].articles[k].embedding)
            >= (90 * Scale) \div 100

HasDuplicate(i) == HasSameHeadline(i) \/ HasNearMember(i)

\* The iteration adds the incoming article to micro-cluster i
JoinsCluster(i) ==
    /\ Len(output') = Len(output)
    /\ output'[i].articles = Append(output[i].articles, Incoming)

\* C11 as stated: an incoming article with the normalized headline of a member
\* of a cluster is added to that cluster, whatever the times and similarities.
C11_SameHeadlineJoins ==
    [][phase' = phase + 1 =>
          \A i \in 1..Len(output) : HasSameHeadline(i) => JoinsCluster(i)]_vars

\* C11, amended: an incoming article with the normalized headline of a member
\* of a cluster that is within 48 hours of it is added to that cluster,
\* whatever the similarities, unless an earlier cluster within 48 hours holds
\* a duplicate of it (and then takes it).
C11_SameHeadlineJoinsInWindow ==
    [][phase' = phase + 1 =>
          \A i \in 1..Len(output) :
              (/\ HasSameHeadline(i)
               /\ InWindow(i)
               /\ \A j \in 1..(i - 1) : ~(InWindow(j) /\ HasDuplicate(j)))
                  => JoinsCluster(i)]_vars

\* An article has joined the cluster of a member with its headline although
\* its cosine to that member and to the centroid is below every threshold.
C11_Witness ==
    /\ phase >= 2
    /\ \E i \in 1..Len(output) :
          LET members == output[i].articles
          IN  /\ Len(members) >= 2
              /\ members[Len(members)] = Consumed
              /\ \E k \in 1..(Len(members) - 1) :
                    /\ trim(toLowerCase(members[k].headline))
                           = trim(toLowerCase(Consumed.headline))
                    /\ cosineSimilarity(Consumed.embedding, members[k].embedding)
                           < (55 * Scale) \div 100
              /\ cosineSimilarity(Consumed.embedding, Some(output[i].centroid))
                     < (55 * Scale) \div 100

\* The micro-cluster the clusterer makes for the incoming article alone
OwnCluster ==
    [centroid |-> Val(Incoming.embedding), articles |-> << Incoming >>,
     latestTime |-> IncomingTime]

\* C12: an incoming article more than 48 hours from the latestTime of every
\* micro-cluster gets a new micro-cluster of its own, whatever the headlines
\* and the similarities.
C12_OutOfWindowMakesCluster ==
    [][phase' = phase + 1 =>
          ((\A i \in 1..Len(output) : ~InWindow(i)) => output' = Append(output, OwnCluster))]_vars

\* An article is alone in the newest cluster although an older cluster, more
\* than 48 hours from it, has a member with its headline and its embedding.
C12_Witness ==
    /\ phase >= 2
    /\ Len(output) >= 2
    /\ output[Len(output)].articles = << Consumed >>
    /\ \E i \in 1..(Len(output) - 1) :
          /\ Abs(ArticleTime(Consumed, input.now) - output[i].latestTime) > MAX_TIME_DIFF_MS
          /\ \E k \in 1..Len(output[i].articles) :
                /\ output[i].articles[k].headline = Consumed.headline
                /\ cosineSimilarity(Consumed.embedding, output[i].articles[k].embedding)
                       >= (90 * Scale) \div 100

\* Micro-cluster i is the first within 48 hours of the incoming article that
\* holds a duplicate of it
FirstDuplicate(i) ==
    /\ InWindow(i)
    /\ HasDuplicate(i)
    /\ \A j \in 1..(i - 1) : ~(InWindow(j) /\ HasDuplicate(j))

\* C13: a merge by the duplicate check leaves the centroid of the cluster
\* that takes the article as it was, and leaves every other micro-cluster
\* (centroid, members, latestTime) as it was.
C13_DuplicateMergeFrame ==
    [][phase' = phase + 1 =>
          \A i \in 1..Len(output) :
              FirstDuplicate(i)
                  => /\ JoinsCluster(i)
                     /\ output'[i].centroid = output[i].centroid
                     /\ \A j \in 1..Len(output) : j # i => output'[j] = output[j]]_vars

\* Beside another micro-cluster, an article has joined the cluster of a
\* member with its headline; the centroid is still the first member's
\* embedding, which is not the article's.
C13_Witness ==
    /\ phase >= 3
    /\ Len(output) >= 2
    /\ \E i \in 1..Len(output) :
          LET members == output[i].articles
          IN  /\ Len(members) = 2
              /\ members[2] = Consumed
              /\ trim(toLowerCase(members[1].headline)) = trim(toLowerCase(Consumed.headline))
              /\ output[i].centroid = Val(members[1].embedding)
              /\ output[i].centroid # Val(Consumed.embedding)

\* C14: after any number of iterations, the latestTime of every micro-cluster
\* is the greatest time of its members, duplicates included.
C14_LatestTimeIsNewestMember ==
    \A i \in 1..Len(output) :
        /\ \A k \in 1..Len(output[i].articles) :
              ArticleTime(output[i].articles[k], input.now) <= output[i].latestTime
        /\ \E k \in 1..Len(output[i].articles) :
              ArticleTime(output[i].articles[k], input.now) = output[i].latestTime

\* The cosine of the incoming article to the centroid of micro-cluster i
CentroidSim(i) == cosineSimilarity(Incoming.embedding, Some(output[i].centroid))

\* Micro-cluster i is the earliest of the clusters within 48 hours that have
\* the highest cosine to the incoming article
BestCluster(i) ==
    /\ InWindow(i)
    /\ \A j \in 1..Len(output) :
          InWindow(j) => \/ CentroidSim(j) < CentroidSim(i)
                         \/ (CentroidSim(j) = CentroidSim(i) /\ j >= i)

\* C15: an article that no cluster takes as a duplicate joins the earliest of
\* the clusters within 48 hours with the highest centroid cosine when that
\* cosine is 0.55 or more, and the cluster's latestTime becomes the greater of
\* its old value and the article's time; otherwise the article gets a new
\* micro-cluster of its own, with its time as latestTime.
C15_CentroidJoinOrNewCluster ==
    [][(phase' = phase + 1 /\ \A d \in 1..Len(output) : ~(InWindow(d) /\ HasDuplicate(d)))
          => IF \E i \in 1..Len(output) :
                    BestCluster(i) /\ CentroidSim(i) >= (55 * Scale) \div 100
             THEN \A i \in 1..Len(output) :
                    BestCluster(i)
                        => /\ JoinsCluster(i)
                           /\ output'[i].latestTime =
                                  (IF IncomingTime > output[i].latestTime
                                   THEN IncomingTime ELSE output[i].latestTime)
                           /\ \A j \in 1..Len(output) : j # i => output'[j] = output[j]
             ELSE output' = Append(output, OwnCluster)]_vars

\* The tie article has joined the first of two clusters whose centroids were
\* at the same cosine from it, 0.55 or more, and has raised its latestTime.
C15_Witness ==
    /\ phase = 3
    /\ Consumed = TieArticle
    /\ Len(output) = 2
    /\ output[1].articles = << input.articles[1], TieArticle >>
    /\ output[2].articles = << input.articles[2] >>
    /\ cosineSimilarity(TieArticle.embedding, input.articles[1].embedding)
           = cosineSimilarity(TieArticle.embedding, Some(output[2].centroid))
    /\ cosineSimilarity(TieArticle.embedding, Some(output[2].centroid)) >= (55 * Scale) \div 100
    /\ Abs(ArticleTime(TieArticle, input.now) - output[2].latestTime) <= MAX_TIME_DIFF_MS
    /\ output[1].latestTime = ArticleTime(TieArticle, input.now)
    /\ ArticleTime(input.articles[1], input.now) < ArticleTime(TieArticle, input.now)

\* C16: the micro-clusters are scanned in the order of their creation, and the
\* first one within 48 hours that holds a duplicate of the incoming article
\* receives it; no other cluster does, whatever duplicates and centroid
\* similarities the later clusters have.
C16_FirstDuplicateWins ==
    [][phase' = phase + 1 =>
          \A i \in 1..Len(output) :
              FirstDuplicate(i)
                  => /\ output'[i].articles = Append(output[i].articles, Incoming)
                     /\ Len(output') = Len(output)
                     /\ \A j \in 1..Len(output) :
                           j # i => output'[j].articles = output[j].articles]_vars

\* An article has joined a cluster although a later cluster, within 48 hours,
\* holds a member at cosine 0.90 or more of it and has the higher centroid
\* cosine.
C16_Witness ==
    /\ phase >= 3
    /\ \E i, j \in 1..Len(output) :
          /\ i < j
          /\ Len(output[i].articles) >= 2
          /\ output[i].articles[Len(output[i].articles)] = Consumed
          /\ Abs(ArticleTime(Consumed, input.now) - output[j].latestTime) <= MAX_TIME_DIFF_MS
          /\ \E k \in 1..Len(output[j].articles) :
                cosineSimilarity(Consumed.embedding, output[j].articles[k].embedding)
                    >= (90 * Scale) \div 100
          /\ cosineSimilarity(Consumed.embedding, Some(output[j].centroid))
                 > cosineSimilarity(Consumed.embedding, Some(output[i].centroid))

\* The structure of a result: the ids of the members of each micro-cluster,
\* in order
Structure(clusters) ==
    [i \in 1..Len(clusters) |->
        [k \in 1..Len(clusters[i].articles) |-> clusters[i].articles[k].id]]

\* C17: two calls of the clusterer on the same list, in the same order, with
\* the same embeddings, give the same structure, also when articles have no
\* pubDate.
C17_SameInputSameStructure ==
    phase = "done" => Structure(output[1]) = Structure(output[2])

\* ------------------------------------------------ claims on the pipeline run

\* The publication time of the k-th selected row of run r
RowTime(r, k) == Val(Article(run[r].rows[k].id).pubDate)

\* C18: in every pipeline run the article sequence handed to the clusterer
\* (the selected rows, enriched in their order) is in ascending pubDate order.
C18_FedInPubDateOrder ==
    \A r \in RunIds :
        run[r].pc = "enrich" =>
            \A i, j \in 1..Len(run[r].rows) : i < j => RowTime(r, i) <= RowTime(r, j)

\* The steps of refineClusters
RefinerPcs == {"refine", "refineLoop"} \cup SplitPcs

\* The embedding of every stored article is left as it was
EmbeddingsKept ==
    \A a \in DOMAIN store.articles :
        /\ a \in DOMAIN store'.articles
        /\ store'.articles[a].embedding = store.articles[a].embedding

\* C19: a pipeline run that selects fewer than 2 unclustered articles goes
\* straight to the refiner; every step it takes is a step of the refiner, none
\* changes an embedding, and the database changes only in the refiner's split
\* (so the run itself inserts no cluster and assigns no article).
C19_MaintenanceRunFrame ==
    [][\A r \in RunIds :
          /\ (run[r].pc = "idle" /\ run'[r].pc # "idle" /\ run'[r].found < 2)
                => (run'[r].pc = "refine" /\ store' = store)
          /\ (run[r].pc # "idle" /\ run[r].found < 2 /\ run'[r] # run[r])
                => /\ run[r].pc \in RefinerPcs
                   /\ EmbeddingsKept
                   /\ (store' # store => run[r].pc \in SplitPcs)]_vars

\* A run that selected fewer than 2 rows has answered after its refiner split
\* a cluster
C19_Witness ==
    \E r \in RunIds :
        /\ run[r].found < 2
        /\ run[r].pc = "done"
        /\ run[r].splits > 0

\* ------------------------------------------------------------ the labeler

\* The members of the clusters handed to the labeler: a headline, and a
\* summary that a row may lack.
LabelArticle(id) ==
    CASE id = 1 -> [id |-> 1, headline |-> H1, summary |-> Some("first")]
      [] id = 2 -> [id |-> 2, headline |-> H2, summary |-> Null]
      [] OTHER  -> [id |-> 3, headline |-> H3, summary |-> Some("third")]

\* Clusters of one or two members
LabelClusters ==
    {[articles |-> [k \in 1..Len(q) |-> LabelArticle(q[k])]] :
        q \in {<< a >> : a \in 1..3} \cup {q \in (1..3) \X (1..3) : q[1] # q[2]}}

\* A parsed JSON value, by the three keys the prompt asks for (Null: the key
\* is absent)
JsonObjects ==
    [headline : {Null, Some(<< "s" >>)}, summary : {Null, Some("brief")},
     category : {Null, Some("Politics")}]

\* The value of JSON.parse('{}')
EmptyObject == [headline |-> Null, summary |-> Null, category |-> Null]

\* The outcomes of ai.models.generateContent: the promise rejects; it
\* resolves without text; it resolves with text that is no JSON; it resolves
\* with the text of a JSON value.
LabelResponses ==
    {[rejects |-> TRUE, text |-> Null], [rejects |-> FALSE, text |-> Null],
     [rejects |-> FALSE, text |-> Some([parseable |-> FALSE, value |-> EmptyObject])]}
    \cup {[rejects |-> FALSE, text |-> Some([parseable |-> TRUE, value |-> d])] :
             d \in JsonObjects}

\* JSON.parse(response.text || '{}')
JsonParse(text) ==
    IF text = Null THEN [throws |-> FALSE, data |-> EmptyObject]
    ELSE [throws |-> ~Val(text).parseable, data |-> Val(text).value]

\* processCluster: { ...data, articles: cluster.articles }, and in the catch
\* the label of the first member.  Null for a cluster without members.
processCluster(cluster, response) ==
    IF Len(cluster.articles) = 0 THEN Null
    ELSE IF response.rejects \/ JsonParse(response.text).throws
    THEN Some([headline |-> Some(cluster.articles[1].headline),
               summary  |-> cluster.articles[1].summary,
               category |-> Some("General"),
               articles |-> cluster.articles])
    ELSE LET data == JsonParse(response.text).data
         IN  Some([headline |-> data.headline, summary |-> data.summary,
                   category |-> data.category, articles |-> cluster.articles])

\* clusterData: headline: c.headline, summary: c.summary,
\* category: c.category || 'General'
clusterData(c) ==
    [headline |-> c.headline, summary |-> c.summary,
     category |-> IF c.category = Null THEN Some("General") ELSE c.category]

InitLabel ==
    /\ InitServer
    /\ input \in [cluster : LabelClusters, response : LabelResponses]
    /\ output = << >>
    /\ phase = "init"

\* the label of one cluster
RunProcessCluster ==
    /\ phase = "init"
    /\ output' = processCluster(input.cluster, input.response)
    /\ phase' = "done"
    /\ UNCHANGED input
    /\ UNCHANGED serverVars

NextLabel == RunProcessCluster

SpecLabel == InitLabel /\ [][NextLabel]_vars

\* ---------------------------------------------------- claims on the labeler

\* The call failed: a transport error, text that is no JSON, or JSON that
\* lacks the headline, the summary or the category
LabelCallFailed ==
    \/ input.response.rejects
    \/ JsonParse(input.response.text).throws
    \/ LET data == JsonParse(input.response.text).data
       IN  data.headline = Null \/ data.summary = Null \/ data.category = Null

\* C20: whenever the generative-model call fails (transport error, text that
\* is no JSON, or JSON lacking headline, summary or category) the cluster is
\* stored with the headline and summary of its first member and the category
\* "General", and the label carries the cluster's member list unchanged.
C20_FailureGivesFallback ==
    (phase = "done" /\ LabelCallFailed) =>
        /\ output # Null
        /\ Val(output).articles = input.cluster.articles
        /\ clusterData(Val(output)) =
              [headline |-> Some(input.cluster.articles[1].headline),
               summary  |-> input.cluster.articles[1].summary,
               category |-> Some("General")]

\* ------------------------------------------- the labeler, request by request

MaxLabeled == 7

BATCH_SIZE == 5

\* The lists handed to generateLabels: one-member clusters, and a list with a
\* cluster without members in its second place.
LabelLists ==
    {[k \in 1..n |-> [articles |-> << LabelArticle((k % 3) + 1) >>]] :
        n \in {1, BATCH_SIZE, BATCH_SIZE + 1, MaxLabeled}}
    \cup {[k \in 1..(BATCH_SIZE + 1) |->
             IF k = 2 THEN [articles |-> << >>]
             ELSE [articles |-> << LabelArticle((k % 3) + 1) >>]]}

\* The outcomes of a request here: a transport error, or the text of a JSON
\* object with the three keys.
BatchResponses ==
    {[rejects |-> TRUE, text |-> Null],
     [rejects |-> FALSE,
      text |-> Some([parseable |-> TRUE,
                     value |-> [headline |-> Some(<< "s" >>), summary |-> Some("brief"),
                                category |-> Some("Politics")]])]}

\* The indices of the batch that starts after index i
BatchOf(i) == {k \in 1..Len(input) : i < k /\ k <= i + BATCH_SIZE}

\* results.filter(Boolean), in the order of the batch
RECURSIVE Results(_, _, _)
Results(results, k, last) ==
    IF k > last THEN << >>
    ELSE (IF results[k] = Null THEN << >> ELSE << Val(results[k]) >>)
         \o Results(results, k + 1, last)

\* The same, in the opposite order
RECURSIVE ResultsReversed(_, _, _)
ResultsReversed(results, k, last) ==
    IF k > last THEN << >>
    ELSE ResultsReversed(results, k + 1, last)
         \o (IF results[k] = Null THEN << >> ELSE << Val(results[k]) >>)

\* phase: i, the loop index; inFlight, the requests sent and not answered;
\* results, the value of each processCluster promise that has settled; tries,
\* the number of generateContent calls made for each cluster; rejected, the
\* clusters whose call was rejected.
InitBatch ==
    /\ InitServer
    /\ input \in LabelLists
    /\ output = << >>
    /\ phase = [pc |-> "loop", i |-> 0, inFlight |-> {},
                results |-> [k \in {} |-> Null],
                tries |-> [k \in 1..Len(input) |-> 0], rejected |-> {}]

\* batch.map(c => processCluster(c)): every processCluster runs to its first
\* await, so the request of every cluster that has members is sent; a cluster
\* without members yields null at once.
StartBatch ==
    /\ phase.pc = "loop"
    /\ phase.i < Len(input)
    /\ LET batch == BatchOf(phase.i)
           sent == {k \in batch : Len(input[k].articles) # 0}
       IN  phase' = [phase EXCEPT !.pc = "await", !.inFlight = sent,
                          !.results = [k \in batch \ sent |-> Null],
                          !.tries = [k \in DOMAIN @ |-> IF k \in sent THEN @[k] + 1 ELSE @[k]]]
    /\ UNCHANGED << input, output >>
    /\ UNCHANGED serverVars

\* One request is answered and its processCluster settles: with the model's
\* label, or in the catch with the label of the first member.
Settle ==
    /\ phase.pc = "await"
    /\ \E k \in phase.inFlight, response \in BatchResponses :
         phase' = [phase EXCEPT !.inFlight = @ \ {k},
                        !.results = (k :> processCluster(input[k], response)) @@ @,
                        !.rejected = IF response.rejects THEN @ \cup {k} ELSE @]
    /\ UNCHANGED << input, output >>
    /\ UNCHANGED serverVars

\* The batch pushed in the opposite order
FinishBatchReversed ==
    /\ phase.pc = "await"
    /\ phase.inFlight = {}
    /\ output' = output \o ResultsReversed(phase.results, phase.i + 1,
                                           IF phase.i + BATCH_SIZE < Len(input)
                                           THEN phase.i + BATCH_SIZE ELSE Len(input))
    /\ phase' = [phase EXCEPT !.pc = "loop", !.i = @ + BATCH_SIZE,
                       !.results = [k \in {} |-> Null]]
    /\ UNCHANGED input
    /\ UNCHANGED serverVars

\* await Promise.all(...) resumes when every promise of the batch has
\* settled; labeled.push(...results.filter(Boolean)); i += BATCH_SIZE.
FinishBatch ==
    /\ phase.pc = "await"
    /\ phase.inFlight = {}
    /\ output' = output \o Results(phase.results, phase.i + 1,
                                   IF phase.i + BATCH_SIZE < Len(input)
                                   THEN phase.i + BATCH_SIZE ELSE Len(input))
    /\ phase' = [phase EXCEPT !.pc = "loop", !.i = @ + BATCH_SIZE,
                       !.results = [k \in {} |-> Null]]
    /\ UNCHANGED input
    /\ UNCHANGED serverVars

\* return labeled
ReturnLabeled ==
    /\ phase.pc = "loop"
    /\ phase.i >= Len(input)
    /\ phase' = [phase EXCEPT !.pc = "done"]
    /\ UNCHANGED << input, output >>
    /\ UNCHANGED serverVars

NextBatch == StartBatch \/ Settle \/ FinishBatch \/ ReturnLabeled

SpecBatch == InitBatch /\ [][NextBatch]_vars

\* --------------------------------- claims on the labeler, request by request

\* The label of the catch block for the k-th cluster
Fallback(k) ==
    [headline |-> Some(input[k].articles[1].headline),
     summary  |-> input[k].articles[1].summary,
     category |-> Some("General"), articles |-> input[k].articles]

\* C21: a cluster whose request met a transport error gets the fallback label
\* only after 3 tries have been made for it.
C21_FallbackAfterThreeTries ==
    \A k \in phase.rejected :
        (k \in DOMAIN phase.results /\ phase.results[k] = Some(Fallback(k)))
            => phase.tries[k] = 3

\* The first index of the batch that holds index k
BatchStart(k) == ((k - 1) \div BATCH_SIZE) * BATCH_SIZE

\* The clusters of the input that have members, up to index n, in order
LabeledUpTo(n) ==
    SelectSeq([k \in 1..n |-> input[k]], LAMBDA c : Len(c.articles) # 0)

\* C22: at most 5 requests are in flight; while a request is in flight every
\* cluster of the earlier batches has been labeled and no request of another
\* batch is in flight; and the labeled list holds the clusters that were
\* labeled so far in the order of the input.
C22_BatchesOfFiveInOrder ==
    /\ Cardinality(phase.inFlight) <= 5
    /\ \A k \in phase.inFlight :
          /\ \A j \in phase.inFlight : BatchStart(j) = BatchStart(k)
          /\ Len(output) = Len(LabeledUpTo(BatchStart(k)))
    /\ LET done == IF phase.i < Len(input) THEN phase.i ELSE Len(input)
       IN  [j \in 1..Len(output) |-> output[j].articles]
             = [j \in 1..Len(LabeledUpTo(done)) |-> LabeledUpTo(done)[j].articles]

\* The second batch is in flight after the first batch of five was labeled
C22_Witness ==
    /\ phase.pc = "await"
    /\ phase.i = BATCH_SIZE
    /\ phase.inFlight # {}
    /\ Len(output) = BATCH_SIZE

\* ---------------------------------------------------- claims on the stats

\* The members of the input whose rating is one of the given ratings
Rated(ratings) ==
    {k \in 1..Len(input) : input[k].bias_rating # Null /\ Val(input[k].bias_rating) \in ratings}

\* The members counted Left, and those counted Right, by the ratings that
\* contain the word
LeftMembers == Cardinality(Rated({"Far Left", "Left", "Center Left"}))
RightMembers == Cardinality(Rated({"Far Right", "Right", "Center Right"}))

\* C23: a member counts Left if its rating contains "Left", otherwise Right
\* if it contains "Right", otherwise Center; blindspot is "Right" exactly when
\* rightPct < 15 and leftPct > 50, "Left" exactly when leftPct < 15 and
\* rightPct > 50, "None" otherwise; 7 Left, 1 Center, 2 Center Right give
\* 70/10/20 and "None"; 7 Left, 2 Center, 1 Center Right give 70, 10 and
\* "Right".
C23_CountsAndBlindspot ==
    phase = "done" =>
        LET d == output.biasDistribution
            total == Len(input)
        IN  /\ d.left = MathRoundPct(LeftMembers, total)
            /\ d.right = MathRoundPct(RightMembers, total)
            /\ (output.blindspot = "Right") <=> (d.right < 15 /\ d.left > 50)
            /\ (output.blindspot = "Left") <=> (d.left < 15 /\ d.right > 50)
            /\ (output.blindspot = "None") <=>
                  (~(d.right < 15 /\ d.left > 50) /\ ~(d.left < 15 /\ d.right > 50))
            /\ (LeftMembers = 7 /\ RightMembers = 2 /\ total = 10) =>
                  /\ d = [left |-> 70, center |-> 10, right |-> 20]
                  /\ output.blindspot = "None"
            /\ (LeftMembers = 7 /\ RightMembers = 1 /\ total = 10) =>
                  /\ d.left = 70
                  /\ d.right = 10
                  /\ output.blindspot = "Right"

\* The stats of 7 Left, 2 Center and 1 Center Right member were computed
C23_Witness ==
    /\ phase = "done"
    /\ Len(input) = 10
    /\ Cardinality(Rated({"Left"})) = 7
    /\ Cardinality(Rated({"Center Right"})) = 1
    /\ Cardinality(Rated({"Center"})) = 2
    /\ output.blindspot = "Right"

\* ------------------------------------------- the upsert, column by column

\* JSON.stringify of an array: the text stored in a TEXT column
JsonStringify(v) == [json |-> v]

\* The rows of news_articles an upsert can meet (the columns the statement
\* can tell apart; summary stands for the columns it only inserts)
StoredRows ==
    [headline : {"old"}, pub_date : {1}, fetched_at : {1}, summary : {"stored"},
     image_url : {Null, Some("old.png")}, cluster_id : {Null, Some("c1")},
     embedding : {Null, Some(JsonStringify(Vec(100, 0)))},
     entities : {Null, Some(JsonStringify(<< "e" >>))}]

\* The table before the statement: empty, or holding article 1
UpsertTables == {[k \in {} |-> Null]} \cup {[k \in {1} |-> row] : row \in StoredRows}

\* The articles of the request body (clusterId may be the empty string)
IncomingArticles ==
    [id : {1}, headline : {"old", "new"}, pubDate : {1, 2}, fetchedAt : {2},
     summary : {"sent"}, imageUrl : {Null, Some("new.png")},
     clusterId : {Null, Some(""), Some("c2")},
     embedding : {Null, Some(Vec(0, 100))}, entities : {Null, Some(<< "f" >>)}]

\* The values bound to the statement: a.clusterId || null,
\* a.embedding ? JSON.stringify(a.embedding) : null, the same for entities
BoundRow(a) ==
    [headline |-> a.headline, pub_date |-> a.pubDate, fetched_at |-> a.fetchedAt,
     summary |-> a.summary, image_url |-> a.imageUrl,
     cluster_id |-> IF a.clusterId = Null \/ a.clusterId = Some("") THEN Null ELSE a.clusterId,
     embedding |-> IF a.embedding = Null THEN Null ELSE Some(JsonStringify(Val(a.embedding))),
     entities |-> IF a.entities = Null THEN Null ELSE Some(JsonStringify(Val(a.entities)))]

\* INSERT OR REPLACE: the stored row gives way to the row sent
UpsertStatementReplace(table, a) == (a.id :> BoundRow(a)) @@ table

\* INSERT INTO news_articles ... ON CONFLICT(id) DO UPDATE SET
\* fetched_at = excluded.fetched_at, headline = excluded.headline,
\* image_url = COALESCE(image_url, excluded.image_url)
UpsertStatement(table, a) ==
    IF a.id \in DOMAIN table
    THEN [table EXCEPT ![a.id] =
             [@ EXCEPT !.fetched_at = BoundRow(a).fetched_at,
                       !.headline = BoundRow(a).headline,
                       !.image_url = IF @ # Null THEN @ ELSE BoundRow(a).image_url]]
    ELSE (a.id :> BoundRow(a)) @@ table

InitUpsert ==
    /\ InitServer
    /\ input \in [table : UpsertTables, a : IncomingArticles]
    /\ output = << >>
    /\ phase = "init"

\* stmt.run([...]) for one article
RunUpsert ==
    /\ phase = "init"
    /\ output' = UpsertStatement(input.table, input.a)
    /\ phase' = "done"
    /\ UNCHANGED input
    /\ UNCHANGED serverVars

NextUpsert == RunUpsert

SpecUpsert == InitUpsert /\ [][NextUpsert]_vars

\* ------------------------------------------------------ claims on the upsert

\* C24: upserting an article whose id is stored sets fetched_at and headline
\* to the incoming values, keeps a stored image_url that is not null and takes
\* the incoming one otherwise, and leaves cluster_id, embedding, entities,
\* pub_date and the other columns of the row as they were; no row is added.
C24_UpsertOfStoredArticle ==
    (phase = "done" /\ input.a.id \in DOMAIN input.table) =>
        LET old == input.table[input.a.id]
            new == output[input.a.id]
        IN  /\ DOMAIN output = DOMAIN input.table
            /\ new.fetched_at = input.a.fetchedAt
            /\ new.headline = input.a.headline
            /\ new.image_url = IF old.image_url # Null THEN old.image_url ELSE input.a.imageUrl
            /\ new.cluster_id = old.cluster_id
            /\ new.embedding = old.embedding
            /\ new.entities = old.entities
            /\ new.pub_date = old.pub_date
            /\ new.summary = old.summary

\* A stored, clustered article without image was sent again with an image,
\* another headline, another pubDate and a clusterId
C24_Witness ==
    /\ phase = "done"
    /\ input.a.id \in DOMAIN input.table
    /\ input.table[input.a.id].image_url = Null
    /\ input.table[input.a.id].cluster_id # Null
    /\ input.a.imageUrl # Null
    /\ input.a.headline # input.table[input.a.id].headline
    /\ input.a.pubDate # input.table[input.a.id].pub_date
    /\ input.a.clusterId = Some("c2")

\* --------------------------------------------------- claims on the ingestion

\* C25: an article created through the ingestion endpoint is unclustered when
\* the ingestion commits: the committed row has cluster_id null, whatever the
\* request body holds.
C25_NewArticleUnclustered ==
    [][\A a \in DOMAIN committed'.articles :
          a \notin DOMAIN committed.articles => committed'.articles[a].cluster_id = Null]_vars

\* -------------------------------------------------- claims on the enrichment

\* The selected rows of run r hold, after the step, the embedding they had or
\* the normalized vector of the article's text
TextOnly(r) ==
    \A i \in 1..Len(run[r].rows) :
        store'.articles[run[r].rows[i].id].embedding
            \in {run[r].rows[i].embedding,
                 Some(normalizeVector(Article(run[r].rows[i].id).text))}

C27_EmbedderFailureIsFatal ==
    [][\A r \in RunIds :
          (run[r].pc = "enrich" /\ run'[r] # run[r] /\ ~models'.embedder) =>
              /\ run[r].found >= 2
              /\ run'[r].pc = "done"
              /\ run'[r].response = "error"
              /\ store' = store
              /\ committed' = committed]_vars

\* A request that selected rows answered with an error while no embedder has
\* ever been loaded
C27_Witness ==
    \E r \in RunIds :
        /\ run[r].found >= 2
        /\ run[r].pc = "done"
        /\ run[r].response = "error"
        /\ ~models.embedder

\* ------------------------------------------- enrichment, then the clusterer

\* The rows a run can select: articles of the feed, each without embedding or
\* with the embedding an earlier enrichment stored (the text vector); F, the
\* articles whose inference throws; nerModel, whether the entity extractor is
\* loaded.
EnrichInputs ==
    {[rows |-> [i \in 1..Len(q) |->
                   [id |-> q[i],
                    embedding |-> IF q[i] \in E
                                  THEN Some(normalizeVector(Article(q[i]).text))
                                  ELSE Null]],
      F |-> F, nerModel |-> n] :
        q \in {p \in DistinctSeqs(1..4, MaxLen) : Len(p) >= 2},
        E \in SUBSET {3, 4}, F \in SUBSET {3, 4}, n \in BOOLEAN}

InitEnrich ==
    /\ InitServer
    /\ input \in EnrichInputs
    /\ output = << >>
    /\ phase = "init"

\* enrichArticles, the embeddings the persist block writes, clusterArticles
RunEnrichAndCluster ==
    /\ phase = "init"
    /\ LET enriched == enrichArticles(input.rows, input.F, input.nerModel)
           enrichedArticles ==
               [i \in 1..Len(input.rows) |-> ArticleObject(input.rows[i].id, enriched[i])]
       IN  output' = [persisted |-> enriched,
                      rawClusters |-> MemberIds(clusterArticles(enrichedArticles, now))]
    /\ phase' = "done"
    /\ UNCHANGED input
    /\ UNCHANGED serverVars

NextEnrich == RunEnrichAndCluster

SpecEnrich == InitEnrich /\ [][NextEnrich]_vars

\* The articles the clusterer put into a micro-cluster
Clustered == UNION {output.rawClusters[k] : k \in 1..Len(output.rawClusters)}

\* C28: an article whose enrichment fails is skipped in that run while the
\* others are processed: the embedding written for it is the one its row held,
\* it is in no micro-cluster of the run (so the run's commit leaves its
\* cluster_id null), and every other selected article is in one.
C28_FailedArticleSkipped ==
    phase = "done" =>
        \A i \in 1..Len(input.rows) :
            IF input.rows[i].id \in input.F
            THEN /\ output.persisted[i] = input.rows[i].embedding
                 /\ input.rows[i].id \notin Clustered
            ELSE input.rows[i].id \in Clustered

\* --------------------------------------------- the refiner, cluster by cluster

MaxRefined == 5

\* A database holding the cluster KnownId, created now or 30 hours ago, with
\* the members q (in the order their rows are read), those of E without
\* embedding.
RefineInputs ==
    {[db |-> [articles |-> [a \in {q[i] : i \in 1..Len(q)} |->
                               [cluster_id |-> Some(KnownId),
                                embedding |-> IF a \in E THEN Null
                                              ELSE Some(EnrichedEmbedding(a, FALSE))]],
              clusters |-> (KnownId :> [stats |-> StatsOf({q[i] : i \in 1..Len(q)}),
                                        created_at |-> t])],
      q |-> q] :
        q \in DistinctSeqs(1..5, MaxRefined) \ {<< >>}, E \in SUBSET {5}, t \in {0 - 30, 0}}

\* The split carried out: DELETE the old cluster, then for each sub-cluster
\* INSERT it and UPDATE its members
RECURSIVE ApplySplit(_, _, _)
ApplySplit(db, plan, k) ==
    IF k > Len(plan) THEN db
    ELSE ApplySplit(AssignCluster(InsertCluster(db, ClusterId(1, 1, k), plan[k]),
                                  ClusterId(1, 1, k), plan[k]),
                    plan, k + 1)

\* One pass of refineClusters over the database when no statement fails
RECURSIVE RefinePass(_, _, _)
RefinePass(db, todo, q) ==
    IF todo = {} THEN db
    ELSE LET c == CHOOSE x \in todo : TRUE
             articlesRaw == [i \in 1..Len(q) |->
                                ArticleObject(q[i], db.articles[q[i]].embedding)]
             plan == SplitPlan(articlesRaw)
         IN  RefinePass(IF plan = << >> THEN db
                        ELSE ApplySplit(DeleteCluster(db, c), plan, 1),
                        todo \ {c}, q)

InitRefine ==
    /\ InitServer
    /\ input \in RefineInputs
    /\ output = << >>
    /\ phase = "init"

\* refineClusters
RunRefinePass ==
    /\ phase = "init"
    /\ output' = RefinePass(input.db, RecentClusters(input.db), input.q)
    /\ phase' = "done"
    /\ UNCHANGED input
    /\ UNCHANGED serverVars

NextRefine == RunRefinePass

SpecRefine == InitRefine /\ [][NextRefine]_vars

\* ----------------------------------------------------- claims on the refiner

\* The members of the cluster, in the order read, that have an embedding
Embedded ==
    SelectSeq([i \in 1..Len(input.q) |->
                  ArticleObject(input.q[i], input.db.articles[input.q[i]].embedding)],
              LAMBDA a : a.embedding # Null)

\* C29: the refiner changes the cluster (its row, or the cluster_id of a
\* member) only if it was created within the last 24 hours, at least 4 of its
\* members have an embedding, their average cosine to the centroid is below
\* 0.60 and re-clustering them yields at least 2 sub-clusters; otherwise the
\* database is as it was.
C29_SplitOnlyIfIncoherent ==
    (phase = "done" /\ output # input.db) =>
        /\ input.db.clusters[KnownId].created_at > now - 24
        /\ Len(Embedded) >= 4
        /\ AvgSim(Embedded) < (60 * Scale) \div 100
        /\ Len(clusterArticles(Embedded, now)) >= 2

\* A recent cluster was replaced by its sub-clusters
C29_Witness ==
    /\ phase = "done"
    /\ KnownId \notin DOMAIN output.clusters
    /\ Cardinality(DOMAIN output.clusters) >= 2
    /\ \A a \in DOMAIN output.articles : output.articles[a].cluster_id # Some(KnownId)

\* An incoherent recent cluster whose members re-cluster into one
C29_WitnessOne ==
    /\ phase = "done"
    /\ output = input.db
    /\ input.db.clusters[KnownId].created_at > now - 24
    /\ Len(Embedded) >= 4
    /\ AvgSim(Embedded) < (60 * Scale) \div 100

\* ------------------------------------------ claims on who changes a cluster

\* The step is taken by a request that is inside a refiner split
RefinerSplitStep == \E r \in RunIds : run[r].pc \in SplitPcs /\ run'[r] # run[r]

\* The committed cluster c is committed as it was: its row and its members
ClusterKept(c) ==
    /\ c \in DOMAIN committed'.clusters
    /\ committed'.clusters[c] = committed.clusters[c]
    /\ Members(committed', c) = Members(committed, c)

\* C30: no operation other than a refiner split deletes or modifies a
\* committed cluster: a step of the pipeline's commit or of the ingestion
\* leaves the row of every committed cluster and the set of its members as
\* they were.
C30_OnlySplitChangesCluster ==
    [][~RefinerSplitStep => \A c \in DOMAIN committed.clusters : ClusterKept(c)]_vars

\* ------------------------------------------------------- the feed ingestion

MaxFeeds == 2

Feeds == 1..MaxFeeds

\* What the outside world does to one feed: whether the local proxy, the
\* public proxies and the JSON API return something usable, how many items
\* with a link the feed holds, and whether mapping an item throws (a date
\* that does not parse, a link that is no URL).
FeedOutcomes ==
    {o \in [local : BOOLEAN, proxies : BOOLEAN, json : BOOLEAN, items : {0, 2},
            throws : BOOLEAN] :
        /\ o.local => (o.proxies /\ o.json)
        /\ o.proxies => o.json
        /\ (o.items = 0 \/ o.throws) => (o.local \/ o.proxies \/ o.json)
        /\ ~(o.items = 0 /\ o.throws)}

\* phase: pc, where each feed's callback stands; xml and articles, its
\* xmlText (or JSON items) and dbArticles; upserts, the calls of
\* dbService.upsertArticles made; settled, the state of the promise
\* ingestRSSFeeds returned.
InitIngest ==
    /\ InitServer
    /\ input \in [Feeds -> FeedOutcomes]
    /\ output = << >>
    /\ phase = [pc |-> [f \in Feeds |-> "local"], found |-> [f \in Feeds |-> FALSE],
                articles |-> [f \in Feeds |-> 0], upserts |-> {}, settled |-> "pending"]

\* let xmlText = await fetchWithLocalProxy(feed.url)
FetchLocalProxy(f) ==
    /\ phase.pc[f] = "local"
    /\ phase' = [phase EXCEPT !.pc[f] = IF input[f].local THEN "map" ELSE "proxies",
                              !.found[f] = input[f].local]
    /\ UNCHANGED << input, output >>
    /\ UNCHANGED serverVars

\* if (!xmlText) xmlText = await fetchWithXmlProxies(feed.url)
FetchXmlProxies(f) ==
    /\ phase.pc[f] = "proxies"
    /\ phase' = [phase EXCEPT !.pc[f] = IF input[f].proxies THEN "map" ELSE "json",
                              !.found[f] = input[f].proxies]
    /\ UNCHANGED << input, output >>
    /\ UNCHANGED serverVars

\* else: const jsonItems = await fetchWithJsonApi(feed.url)
FetchJsonApi(f) ==
    /\ phase.pc[f] = "json"
    /\ phase' = [phase EXCEPT !.pc[f] = "map", !.found[f] = input[f].json]
    /\ UNCHANGED << input, output >>
    /\ UNCHANGED serverVars

\* dbArticles = items.map(...): the catch of the feed's callback takes what
\* the mapping throws, and the callback returns.
MapItems(f) ==
    /\ phase.pc[f] = "map"
    /\ phase' = IF phase.found[f] /\ input[f].throws
                THEN [phase EXCEPT !.pc[f] = "done"]
                ELSE [phase EXCEPT !.pc[f] = "store",
                                   !.articles[f] = IF phase.found[f] THEN input[f].items ELSE 0]
    /\ UNCHANGED << input, output >>
    /\ UNCHANGED serverVars

\* The articles sent to the store whatever their number
StoreArticlesAlways(f) ==
    /\ phase.pc[f] = "store"
    /\ phase' = [phase EXCEPT !.pc[f] = "done",
                              !.upserts = @ \cup {[feed |-> f, count |-> phase.articles[f]]}]
    /\ UNCHANGED << input, output >>
    /\ UNCHANGED serverVars

\* if (dbArticles.length > 0) await dbService.upsertArticles(dbArticles);
\* upsertArticles catches what its request throws.
StoreArticles(f) ==
    /\ phase.pc[f] = "store"
    /\ phase' = [phase EXCEPT !.pc[f] = "done",
                              !.upserts = IF phase.articles[f] > 0
                                          THEN @ \cup {[feed |-> f, count |-> phase.articles[f]]}
                                          ELSE @]
    /\ UNCHANGED << input, output >>
    /\ UNCHANGED serverVars

\* await Promise.all(promises): every callback has returned
IngestSettles ==
    /\ phase.settled = "pending"
    /\ \A f \in Feeds : phase.pc[f] = "done"
    /\ phase' = [phase EXCEPT !.settled = "resolved"]
    /\ UNCHANGED << input, output >>
    /\ UNCHANGED serverVars

NextIngest ==
    \/ \E f \in Feeds : FetchLocalProxy(f)
    \/ \E f \in Feeds : FetchXmlProxies(f)
    \/ \E f \in Feeds : FetchJsonApi(f)
    \/ \E f \in Feeds : MapItems(f)
    \/ \E f \in Feeds : StoreArticles(f)
    \/ IngestSettles

SpecIngest == InitIngest /\ [][NextIngest]_vars

\* ------------------------------------------------ claims on the feed ingestion

\* The feed yields articles: a strategy returns its items, there are some and
\* mapping them does not throw
Yields(f) ==
    /\ input[f].local \/ input[f].proxies \/ input[f].json
    /\ input[f].items > 0
    /\ ~input[f].throws

\* C31: whatever feeds fail, ingestRSSFeeds does not reject; when it has
\* completed, the articles of every feed that yielded some were upserted and
\* no upsert was made for a feed that yielded none; and no upsert is ever made
\* for such a feed.
C31_IngestionAbsorbsFailures ==
    /\ phase.settled # "rejected"
    /\ \A u \in phase.upserts : Yields(u.feed) /\ u.count = input[u.feed].items
    /\ phase.settled = "resolved" =>
          \A f \in Feeds : Yields(f) => [feed |-> f, count |-> input[f].items] \in phase.upserts

\* The ingestion completed with a feed whose strategies all failed, a feed
\* that yielded articles and nothing upserted for the first
C31_Witness ==
    /\ phase.settled = "resolved"
    /\ \E f, g \in Feeds :
          /\ ~input[f].local /\ ~input[f].proxies /\ ~input[f].json
          /\ Yields(g)
          /\ phase.upserts = {[feed |-> g, count |-> input[g].items]}

\* ------------------------------------------------- claims on the response

\* The clustersGenerated of the answer {success: true, ...} of request r:
\* dbClusters.length, and absent from the answer of a maintenance run
\* ({success: true, message})
ClustersGenerated(r) == IF run[r].found < 2 THEN Null ELSE Some(run[r].made)

\* C32: every trigger of the pipeline endpoint receives one response: no
\* request is left unanswered by the death of the process; the response is
\* success:true or success:false; and success:true carries clustersGenerated,
\* the number of clusters the run committed (0 when it skipped clustering).
C32_OneResponsePerTrigger ==
    \A r \in RunIds :
        /\ crashed => run[r].pc \in {"idle", "done"}
        /\ run[r].pc = "done" => run[r].response \in {"ok", "error"}
        /\ (run[r].pc = "done" /\ run[r].response = "ok") =>
              ClustersGenerated(r) = Some(Cardinality(run[r].commitIds))

\* ------------------------------------------ claims on the embedding's length

\* The input articles whose embedding has not the length of the deployment's
\* vectors
OddLength ==
    {k \in 1..Len(input.articles) :
        /\ input.articles[k].embedding # Null
        /\ Len(Val(input.articles[k].embedding)) # Len(Vec(0, 0))}

\* C33: an article whose embedding has another length than the deployment's
\* dimension is treated as having none: it is in no micro-cluster and no
\* centroid is made of its vector.
C33_OddLengthIsMissing ==
    phase = "done" =>
        \A k \in OddLength :
            \A i \in 1..Len(output) :
                /\ \A m \in 1..Len(output[i].articles) :
                      output[i].articles[m].id # input.articles[k].id
                /\ Len(output[i].centroid) = Len(Vec(0, 0))

\* ------------------------------------------------------------ fetchWithRetry

MaxRetries == 5

\* What one fetch does: it resolves with a response of some status, or it
\* throws (status 0 here: no response)
FetchOutcomes == {0, 200, 404, 500, 502, 503, 504}

\* res.ok: a status in 200..299
Ok(status) == status >= 200 /\ status <= 299

\* Math.pow(2, i)
RECURSIVE Pow2(_)
Pow2(i) == IF i = 0 THEN 1 ELSE 2 * Pow2(i - 1)

\* phase: i, the loop index; requests, the outcome of every fetch made; waits,
\* the delays waited; lastError, the error last caught (the status it names,
\* 0 for what fetch threw); result, the response returned or the error thrown.
InitFetch ==
    /\ InitServer
    /\ input \in 0..MaxRetries
    /\ output = << >>
    /\ phase = [pc |-> "loop", i |-> 0, requests |-> << >>, waits |-> << >>,
                lastError |-> Null, result |-> Null]

\* An attempt that takes every response that is not ok for a failure
AttemptRetryingNotOk ==
    /\ phase.pc = "loop"
    /\ phase.i < input
    /\ \E o \in FetchOutcomes :
         phase' = IF o # 0 /\ Ok(o)
                  THEN [phase EXCEPT !.pc = "returned", !.requests = Append(@, o),
                                     !.result = Some(o)]
                  ELSE [phase EXCEPT !.pc = IF phase.i < input - 1 THEN "wait" ELSE "loop",
                                     !.i = IF phase.i < input - 1 THEN @ ELSE @ + 1,
                                     !.requests = Append(@, o), !.lastError = Some(o)]
    /\ UNCHANGED << input, output >>
    /\ UNCHANGED serverVars

\* const res = await fetch(url, options); a 502, 503 or 504 is thrown as an
\* error, any other response is returned; the catch keeps the error and,
\* after the last attempt, lets the loop end.
Attempt ==
    /\ phase.pc = "loop"
    /\ phase.i < input
    /\ \E o \in FetchOutcomes :
         phase' = IF o # 0 /\ ~(~Ok(o) /\ o \in {502, 503, 504})
                  THEN [phase EXCEPT !.pc = "returned", !.requests = Append(@, o),
                                     !.result = Some(o)]
                  ELSE [phase EXCEPT !.pc = IF phase.i < input - 1 THEN "wait" ELSE "loop",
                                     !.i = IF phase.i < input - 1 THEN @ ELSE @ + 1,
                                     !.requests = Append(@, o), !.lastError = Some(o)]
    /\ UNCHANGED << input, output >>
    /\ UNCHANGED serverVars

\* await wait(500 * Math.pow(2, i)), then the next iteration
WaitBeforeRetry ==
    /\ phase.pc = "wait"
    /\ phase' = [phase EXCEPT !.pc = "loop", !.i = @ + 1,
                              !.waits = Append(@, 500 * Pow2(phase.i))]
    /\ UNCHANGED << input, output >>
    /\ UNCHANGED serverVars

\* throw lastError
ThrowLastError ==
    /\ phase.pc = "loop"
    /\ phase.i >= input
    /\ phase' = [phase EXCEPT !.pc = "thrown", !.result = phase.lastError]
    /\ UNCHANGED << input, output >>
    /\ UNCHANGED serverVars

NextFetch == Attempt \/ WaitBeforeRetry \/ ThrowLastError

SpecFetch == InitFetch /\ [][NextFetch]_vars

\* ---------------------------------------------------- claims on fetchWithRetry

\* The attempt with this outcome failed: fetch threw, or the status is 502,
\* 503 or 504
FailedAttempt(o) == o \in {0, 502, 503, 504}

C34_WitnessReturned ==
    /\ phase.pc = "returned"
    /\ phase.result = Some(500)
    /\ Len(phase.requests) = 3


\* ------------------------------------------------------------ triggerPipeline

\* What one POST to the pipeline endpoint does: it resolves with a response of
\* some status, or it throws (0)
PostOutcomes == {0, 200, 404, 500, 503}

\* What response.json() does on an ok response
JsonOutcomes == {"body", "throws"}

\* { success: false, message: "Failed to trigger pipeline" }
TriggerFailure == [success |-> FALSE, message |-> "Failed to trigger pipeline"]

\* The body the server answers a pipeline request with
TriggerBody == [success |-> TRUE, message |-> "body"]

\* phase: i, the loop index; requests, the outcome of every POST made; waits,
\* the attempts (from 1) that were followed by a wait of 2000 ms; response, the
\* status of the response last assigned; result, what the call returned.
InitTrigger ==
    /\ InitServer
    /\ input = << >>
    /\ output = << >>
    /\ phase = [pc |-> "loop", i |-> 0, requests |-> << >>, waits |-> << >>,
                response |-> Null, result |-> Null]

\* A POST whose catch waits after every response that is not ok
PostWaitingOnNotOk ==
    /\ phase.pc = "loop"
    /\ phase.i < 3
    /\ \E o \in PostOutcomes :
         phase' = IF o # 0 /\ Ok(o)
                  THEN [phase EXCEPT !.pc = "after", !.requests = Append(@, o),
                                     !.response = Some(o)]
                  ELSE IF phase.i < 2
                  THEN [phase EXCEPT !.pc = "wait", !.requests = Append(@, o),
                                     !.response = IF o = 0 THEN @ ELSE Some(o)]
                  ELSE [phase EXCEPT !.i = @ + 1, !.requests = Append(@, o),
                                     !.response = IF o = 0 THEN @ ELSE Some(o),
                                     !.pc = "after"]
    /\ UNCHANGED << input, output >>
    /\ UNCHANGED serverVars

\* response = await fetch(.../pipeline/process, {method: 'POST'}): an ok
\* response ends the loop, a status >= 500 is thrown, what is thrown is caught
\* and followed by a wait unless the attempt was the third, and any other
\* response goes on to the next iteration at once.
Post ==
    /\ phase.pc = "loop"
    /\ phase.i < 3
    /\ \E o \in PostOutcomes :
         phase' = IF o # 0 /\ Ok(o)
                  THEN [phase EXCEPT !.pc = "after", !.requests = Append(@, o),
                                     !.response = Some(o)]
                  ELSE IF (o = 0 \/ o >= 500) /\ phase.i < 2
                  THEN [phase EXCEPT !.pc = "wait", !.requests = Append(@, o),
                                     !.response = IF o = 0 THEN @ ELSE Some(o)]
                  ELSE [phase EXCEPT !.i = @ + 1, !.requests = Append(@, o),
                                     !.response = IF o = 0 THEN @ ELSE Some(o),
                                     !.pc = IF phase.i + 1 < 3 THEN "loop" ELSE "after"]
    /\ UNCHANGED << input, output >>
    /\ UNCHANGED serverVars

\* await wait(2000), then the next iteration
WaitTwoSeconds ==
    /\ phase.pc = "wait"
    /\ phase' = [phase EXCEPT !.pc = "loop", !.i = @ + 1,
                              !.waits = Append(@, phase.i + 1)]
    /\ UNCHANGED << input, output >>
    /\ UNCHANGED serverVars

\* After the loop: no response or a response that is not ok throws, and so
\* does a body that does not parse; the outer catch returns the failure
\* object, otherwise the parsed body is returned.
FinishTrigger ==
    /\ phase.pc = "after"
    /\ \E j \in JsonOutcomes :
         phase' = [phase EXCEPT !.pc = "returned",
                                !.result = IF phase.response = Null \/ ~Ok(Val(phase.response)) \/ j = "throws"
                                           THEN Some(TriggerFailure)
                                           ELSE Some(TriggerBody)]
    /\ UNCHANGED << input, output >>
    /\ UNCHANGED serverVars

NextTrigger == Post \/ WaitTwoSeconds \/ FinishTrigger

SpecTrigger == InitTrigger /\ [][NextTrigger]_vars

\* --------------------------------------------------- claims on triggerPipeline

\* The attempts that are to be followed by a wait: the first and the second,
\* when the POST threw or answered with a status of 500 or more
Waited(requests) == {k \in 1..Len(requests) : k \in {1, 2} /\ (requests[k] = 0 \/ requests[k] >= 500)}

\* C35: at most 3 POST requests are made and none after the first ok response;
\* 2 s are waited only after a thrown failure or a status >= 500 on attempts 1
\* and 2; the call never throws; and it returns {success: false, message}
\* whenever no attempt produced an ok response.
C35_ThreeTriesNeverThrows ==
    LET n == Len(phase.requests)
    IN  /\ n <= 3
        /\ \A k \in 1..(n - 1) : ~Ok(phase.requests[k])
        /\ {phase.waits[k] : k \in 1..Len(phase.waits)} \subseteq Waited(phase.requests)
        /\ phase.pc \in {"loop", "wait", "after", "returned"}
        /\ phase.pc = "returned" =>
              /\ phase.result # Null
              /\ (\A k \in 1..n : ~Ok(phase.requests[k])) => phase.result = Some(TriggerFailure)

\* A 404, then a status 503 followed by a wait, then a thrown POST: the
\* failure object is returned after three requests and one wait
C35_Witness ==
    /\ phase.pc = "returned"
    /\ phase.requests = << 404, 503, 0 >>
    /\ phase.waits = << 2 >>
    /\ phase.result = Some(TriggerFailure)


\* -------------------------------------------------------- fetchTrendingStories

MaxStored == 2

\* The age in minutes, at the time of the call, of a stored cluster
CacheAges == {0, 29, 30, 45}

\* The stored clusters as GET /api/clusters orders them, by created_at
\* descending: the newest, the one of least age, first
StoredClusters ==
    {s \in UNION {[1..n -> CacheAges] : n \in 0..MaxStored} :
        \A k \in 1..(Len(s) - 1) : s[k] <= s[k + 1]}

\* dbService.getRecentClusters(): the stored clusters, or [] when the request
\* failed after its retries or was answered with a status that is not ok
getRecentClusters(stored, ok) == IF ok THEN stored ELSE << >>

\* phase: stored, the clusters in the store; existing, what the first read
\* returned; log, the steps completed so far.
InitStories ==
    /\ InitServer
    /\ input \in StoredClusters
    /\ output = << >>
    /\ phase = [pc |-> "start", stored |-> input, existing |-> << >>, log |-> << >>]

\* await ingestRSSFeeds()
IngestFeeds ==
    /\ phase.pc = "start"
    /\ phase' = [phase EXCEPT !.pc = "ingested", !.log = Append(@, "ingested")]
    /\ UNCHANGED << input, output >>
    /\ UNCHANGED serverVars

\* existingClusters = await dbService.getRecentClusters(), and the test of
\* the age of the first of them
ReadCache ==
    /\ phase.pc = "ingested"
    /\ \E ok \in BOOLEAN :
         LET existingClusters == getRecentClusters(phase.stored, ok)
         IN  phase' = [phase EXCEPT !.existing = existingClusters,
                                    !.log = Append(@, "read"),
                                    !.pc = IF Len(existingClusters) > 0 /\ existingClusters[1] < 30
                                           THEN "cached" ELSE "trigger"]
    /\ UNCHANGED << input, output >>
    /\ UNCHANGED serverVars

\* return hydrateStoriesFromDB(existingClusters); what hydration throws is
\* thrown again
ServeCached ==
    /\ phase.pc = "cached"
    /\ \E hydrated \in BOOLEAN :
         /\ phase' = [phase EXCEPT !.pc = IF hydrated THEN "returned" ELSE "thrown"]
         /\ output' = IF hydrated THEN phase.existing ELSE output
    /\ UNCHANGED input
    /\ UNCHANGED serverVars

\* await analysisService.triggerPipeline(): it returns the body of the
\* server's answer or the failure object; a run of the pipeline may have
\* stored a new cluster
TriggerPipeline ==
    /\ phase.pc = "trigger"
    /\ \E result \in {TriggerFailure, TriggerBody}, made \in BOOLEAN :
         phase' = [phase EXCEPT !.pc = "reread",
                                !.stored = IF made THEN << 0 >> \o @ ELSE @,
                                !.log = Append(@, IF result.success THEN "triggered" ELSE "triggerFailed")]
    /\ UNCHANGED << input, output >>
    /\ UNCHANGED serverVars

\* freshClusters = await dbService.getRecentClusters();
\* return hydrateStoriesFromDB(freshClusters)
ReRead ==
    /\ phase.pc = "reread"
    /\ \E ok \in BOOLEAN, hydrated \in BOOLEAN :
         /\ phase' = [phase EXCEPT !.pc = IF hydrated THEN "returned" ELSE "thrown",
                                   !.log = Append(@, "reread")]
         /\ output' = IF hydrated THEN getRecentClusters(phase.stored, ok) ELSE output
    /\ UNCHANGED input
    /\ UNCHANGED serverVars

NextStories == IngestFeeds \/ ReadCache \/ ServeCached \/ TriggerPipeline \/ ReRead

SpecStories == InitStories /\ [][NextStories]_vars

\* ---------------------------------------------- claims on fetchTrendingStories

\* The position of a step in the log, 0 when it has not happened
LogIndex(step) ==
    IF \E k \in 1..Len(phase.log) : phase.log[k] \in step
    THEN CHOOSE k \in 1..Len(phase.log) : phase.log[k] \in step
    ELSE 0

\* C36: ingestion completes before the cached clusters are read; the pipeline
\* is triggered only if no cluster is stored or the newest stored cluster is at
\* least 30 minutes old; and the clusters are re-read only after the trigger
\* call has returned, whether it succeeded or not.
C36_StepsInOrder ==
    /\ LogIndex({"read"}) # 0 => LogIndex({"ingested"}) = 1 /\ LogIndex({"read"}) = 2
    /\ LogIndex({"triggered", "triggerFailed"}) # 0 => (input = << >> \/ input[1] >= 30)
    /\ LogIndex({"reread"}) # 0 =>
          /\ LogIndex({"triggered", "triggerFailed"}) # 0
          /\ LogIndex({"triggered", "triggerFailed"}) < LogIndex({"reread"})


\* --------------------------------------------------------- NER reconstruction

MaxTokens == 3

\* token.word, a string as the sequence of its characters; the tokenizer
\* marks the continuation of a word with the prefix ##
NerWords == {<< "a" >>, << "a", "b", "c" >>, << "#", "#", "d" >>, << "#", "#", "e", "f" >>}

\* token.entity
NerTags == {<< "B", "-", "P" >>, << "I", "-", "P" >>, << "O" >>}

\* nerOutput
NerOutputs == UNION {[1..n -> [word : NerWords, entity : NerTags]] : n \in 0..MaxTokens}

\* s.startsWith(p)
StartsWith(s, p) == Len(s) >= Len(p) /\ SubSeq(s, 1, Len(p)) = p

\* word.replace('##', ''): the first occurrence of ## is taken out
StripMark(w) ==
    LET at == {i \in 1..(Len(w) - 1) : w[i] = "#" /\ w[i + 1] = "#"}
    IN  IF at = {} THEN w
        ELSE LET i == CHOOSE j \in at : \A l \in at : j <= l
             IN  SubSeq(w, 1, i - 1) \o SubSeq(w, i + 2, Len(w))

\* if (currentEntity) entities.add(currentEntity), on a Set that keeps the
\* order of insertion
AddEntity(entities, currentEntity) ==
    IF currentEntity = << >> \/ \E k \in 1..Len(entities) : entities[k] = currentEntity
    THEN entities
    ELSE Append(entities, currentEntity)

\* e.length > 2
LongEnough(e) == Len(e) > 2

InitNer ==
    /\ InitServer
    /\ input \in NerOutputs
    /\ output = << >>
    /\ phase = [pc |-> "loop", k |-> 0, currentEntity |-> << >>, entities |-> << >>]

\* One iteration of for (const token of nerOutput)
ProcessToken ==
    /\ phase.pc = "loop"
    /\ phase.k < Len(input)
    /\ LET token == input[phase.k + 1]
           word == StripMark(token.word)
           currentEntity == phase.currentEntity
       IN  phase' =
             IF StartsWith(token.entity, << "B", "-" >>)
                \/ (StartsWith(token.entity, << "I", "-" >>) /\ currentEntity = << >>)
             THEN [phase EXCEPT !.k = @ + 1,
                                !.entities = AddEntity(@, currentEntity),
                                !.currentEntity = word]
             ELSE IF StartsWith(token.entity, << "I", "-" >>)
             THEN [phase EXCEPT !.k = @ + 1, !.currentEntity = @ \o word]
             ELSE [phase EXCEPT !.k = @ + 1,
                                !.entities = AddEntity(@, currentEntity),
                                !.currentEntity = << >>]
    /\ UNCHANGED << input, output >>
    /\ UNCHANGED serverVars

\* After the loop: the open entity is added and the short ones are filtered out
FinishNer ==
    /\ phase.pc = "loop"
    /\ phase.k = Len(input)
    /\ phase' = [phase EXCEPT !.pc = "done",
                              !.entities = AddEntity(@, phase.currentEntity)]
    /\ output' = SelectSeq(AddEntity(phase.entities, phase.currentEntity), LongEnough)
    /\ UNCHANGED input
    /\ UNCHANGED serverVars

NextNer == ProcessToken \/ FinishNer

SpecNer == InitNer /\ [][NextNer]_vars

\* ------------------------------------------------ claims on NER reconstruction

\* The token is the continuation of a word
Subword(token) == StartsWith(token.word, << "#", "#" >>)

\* The entities and the open entity after the step are those before it with
\* the open entity flushed and replaced by this one
Flushed(open) ==
    /\ phase'.entities = AddEntity(phase.entities, phase.currentEntity)
    /\ phase'.currentEntity = open

\* C37: a B- tag flushes the open entity and starts a new one; an I- tag
\* extends the open entity, or starts one when none is open; an O tag flushes
\* the open entity; a subword continuation attaches to the open entity without
\* a separator whatever its tag; the entity open at the end is flushed; and
\* only entities longer than 2 characters are returned.
C37_ReconstructionRules ==
    [][/\ (phase.pc = "loop" /\ phase'.pc = "loop") =>
            LET token == input[phase.k + 1]
                word == IF Subword(token) THEN Tail(Tail(token.word)) ELSE token.word
            IN  IF Subword(token) /\ phase.currentEntity # << >>
                THEN /\ phase'.currentEntity = phase.currentEntity \o word
                     /\ phase'.entities = phase.entities
                ELSE IF StartsWith(token.entity, << "B", "-" >>)
                THEN Flushed(word)
                ELSE IF StartsWith(token.entity, << "I", "-" >>)
                THEN /\ phase'.entities = phase.entities
                     /\ phase'.currentEntity \in
                            IF phase.currentEntity = << >> THEN {word}
                            ELSE {phase.currentEntity \o word,
                                  phase.currentEntity \o << " " >> \o word}
                ELSE Flushed(<< >>)
       /\ (phase.pc = "loop" /\ phase'.pc = "done") =>
            /\ Flushed(phase.currentEntity)
            /\ output' = SelectSeq(phase'.entities, LongEnough)
      ]_vars


\* ------------------------------------------- claims on the refiner's failures

\* Request r takes a step of the refiner in which something fails: a read or
\* a statement is rejected, or the split is given up
RefinerFailure(r) ==
    /\ run[r].pc \in RefinerPcs
    /\ run'[r] # run[r]
    /\ \/ faults' # faults
       \/ run[r].pc = "splitRollback"
       \/ run'[r].pc = "splitRollback"

\* C38: a failure inside the refiner never changes the outcome of the run that
\* invoked it: the step in which it fails leaves the clusters the run has
\* committed as they are, a split that was given up leaves the run's cluster
\* it was about to replace as it was, and the run is answered as if the refiner
\* had done nothing: success with the number of clusters it committed.
C38_RefinerFailureIsHarmless ==
    [][\A r \in RunIds :
          /\ RefinerFailure(r) =>
                \A c \in run[r].commitIds \cap DOMAIN committed.clusters : ClusterKept(c)
          /\ (run[r].pc = "splitRollback" /\ run'[r].pc \notin SplitPcs /\ ~crashed'
                  /\ run[r].oldExisted /\ run[r].old \in run[r].commitIds)
                => /\ run[r].old \in DOMAIN committed'.clusters
                   /\ run[r].newIds \cap DOMAIN committed'.clusters = {}
          /\ (run[r].pc \in RefinerPcs /\ run'[r].pc = "done") =>
                /\ run'[r].response = "ok"
                /\ run'[r].found >= 2 => run'[r].made = Cardinality(run'[r].commitIds)
      ]_vars


\* ------------------------------------------------- the clusterer, run again

\* The lists the clusterer is run on: those of ClusterInputs, and the rows of
\* the members of a stored cluster as the refiner passes them, which carry no
\* pubDate
ReclusterInputs ==
    ClusterInputs
    \cup {[articles |-> [k \in 1..Len(q) |->
                            [id |-> q[k], headline |-> Article(q[k]).headline,
                             embedding |-> Some(EnrichedEmbedding(q[k], FALSE)),
                             pubDate |-> Null]],
           now |-> n] :
             q \in DistinctSeqs(1..5, MaxRefined) \ {<< >>}, n \in NowValues}

\* Here output is [first |-> the micro-clusters of the list, again |-> for
\* each of them the micro-clusters of its members].
InitRecluster ==
    /\ InitServer
    /\ input \in ReclusterInputs
    /\ output = << >>
    /\ phase = "init"

\* newMicroClusters = clusterArticles(articles)
RunOnList ==
    /\ phase = "init"
    /\ output' = [first |-> clusterArticles(input.articles, input.now), again |-> << >>]
    /\ phase' = "first"
    /\ UNCHANGED input
    /\ UNCHANGED serverVars

\* clusterArticles on the members of each micro-cluster, in their member
\* order, Date.now() being what it was
RunOnMembers ==
    /\ phase = "first"
    /\ output' = [output EXCEPT !.again =
                     [i \in 1..Len(output.first) |->
                         clusterArticles(output.first[i].articles, input.now)]]
    /\ phase' = "done"
    /\ UNCHANGED input
    /\ UNCHANGED serverVars

NextRecluster == RunOnList \/ RunOnMembers

SpecRecluster == InitRecluster /\ [][NextRecluster]_vars

\* ------------------------------------------------- claims on re-clustering

\* The members are rows of the store: none carries a pubDate
RowsOfStore(articles) == \A k \in 1..Len(articles) : articles[k].pubDate = Null

\* C39: the clusterer run on the members of a micro-cluster it produced, in
\* their member order and with the same embeddings and times, yields exactly
\* one micro-cluster that holds all of them; and so a pass of the refiner that
\* reads the members of a sub-cluster in that order does not split it.
C39_ReclusteringIsStable ==
    phase = "done" =>
        \A i \in 1..Len(output.first) :
            /\ Len(output.again[i]) = 1
            /\ output.again[i][1].articles = output.first[i].articles
            /\ RowsOfStore(output.first[i].articles) => SplitPlan(output.first[i].articles) = << >>

\* A list that made two micro-clusters, one of them of four members whose
\* average similarity to their centroid is below the refiner's threshold
C39_Witness ==
    /\ phase = "done"
    /\ Len(output.first) >= 2
    /\ \E i \in 1..Len(output.first) :
          /\ Len(output.first[i].articles) >= 4
          /\ RowsOfStore(output.first[i].articles)
          /\ AvgSim(output.first[i].articles) < COHERENCE_THRESHOLD

\* A micro-cluster that took one member as a duplicate and another by its
\* centroid
C39_WitnessJoined ==
    /\ phase = "done"
    /\ \E i \in 1..Len(output.first) :
          /\ Len(output.first[i].articles) = 3
          /\ output.first[i].centroid # Val(output.first[i].articles[1].embedding)

====
